---- MODULE Spec2Model ----
(***************************************************************************)
(* State-machine model of the device connection supervisor of              *)
(* kyutai-labs/unmute: unmute/device_manager.py (DeviceConnection,         *)
(* DeviceManager), unmute/remote_devices.py (RemoteDevicesConfig) and the  *)
(* reconnect endpoint of unmute/main_auto_connect.py.                      *)
(*                                                                         *)
(* asyncio is cooperative: the code between two suspension points (await   *)
(* of something that is not ready) runs atomically.  Every action below is *)
(* one such segment of one coroutine.  A cancellation requested with       *)
(* Task.cancel() is delivered as CancelledError when the task is resumed.  *)
(***************************************************************************)
EXTENDS Naturals, Integers, Sequences, FiniteSets, TLC

VARIABLES
    config,          \* RemoteDevicesConfig.devices
    device_manager,  \* main_auto_connect.device_manager is not None
    running,         \* DeviceManager.running
    connections,     \* DeviceManager.connections (insertion-ordered dict)
    conns,           \* heap of DeviceConnection objects
    tasks,           \* asyncio tasks and caller coroutines
    sessions,        \* transports (websocket) and the UnmuteHandler made with each
    response,        \* status code of the last answered reconnect request
    env,             \* what the environment and the callers may still do
    recorder         \* one Recorder, its run() tasks and its callers

vars == <<config, device_manager, running, connections, conns, tasks, sessions,
          response, env, recorder>>

-----------------------------------------------------------------------------
(* Bounds of the exploration *)

\* Spec, the server with one enabled device: successful transport connects,
\* handler emissions, inbound frames and caller requests (reconnect requests
\* and DeviceManager.stop() calls) the environment may still make
MaxSessions == 2
MaxEmit == 1
MaxInbound == 1
MaxCalls == 1
\* connect attempts counted per connection-loop task (the count saturates here)
AttemptCap == 2
\* SpecControl, the server and its requests, without message traffic
ControlSessions == 1
ControlCalls == 1
\* SpecFleet, the server with two enabled devices
FleetSessions == 2
FleetCalls == 1
\* SpecCalls, one connection and direct stop() calls
CallsSessions == 2
CallsCalls == 2
\* SpecDuplex, one session
DuplexSessions == 1
DuplexEmit == 1
DuplexInbound == 2
\* SpecLive, one connection that is never stopped
LiveSessions == 2
LiveEmit == 1
\* SpecStops, a fleet stopped by overlapping callers
StopsSessions == 1
StopsCalls == 2
\* SpecManager, start() and stop() called on a running manager
ManagerSessions == 1
ManagerCalls == 1
ManagerStarts == 1
\* SpecRestart, start() called again on a manager nobody stops
RestartSessions == 1
RestartStarts == 1
\* SpecOverlap, the server with requests that overlap
OverlapSessions == 1
OverlapCalls == 2
\* SpecFaults, two devices that nobody stops
FaultsSessions == 2
\* SpecLoad, the startup from the loading of the configuration on
LoadSessions == 1
\* SpecParse, the startup over one configuration file
ParseSessions == 1
\* SpecRecorder, one Recorder: the run() tasks created, the events offered to
\* add_event and the shutdown() calls; the flush threshold of recorder.py line
\* 12 (1000 there) is scaled down to the events the exploration offers
MaxRuns == 2
MaxEvents == 3
MaxShutdowns == 2
SAVE_EVERY_N_EVENTS == 2
\* SpecCleanup, a connection whose close() and handler teardown may raise
CleanupSessions == 1
CleanupCalls == 1
CleanupFaults == 2
\* SpecHealth, the health check before and after the manager is stopped
HealthSessions == 1
HealthCalls == 2
\* SpecReconnects, three reconnect requests that may overlap
ReconnectsSessions == 1
ReconnectsCalls == 3

None == 0

Names == <<"a", "b">>

-----------------------------------------------------------------------------
(* remote_devices.py *)

\* RemoteDevice (lines 10-22): the fields the supervisor reads; reconnect_delay
\* defaults to 5.0 and no validator constrains it or the name
RemoteDevice(n, en, ar) ==
    [name |-> n, enabled |-> en, auto_reconnect |-> ar, reconnect_delay |-> 5]

\* a filter that keeps every device
all_devices(devices) == devices

get_enabled_devices(devices) == SelectSeq(devices, LAMBDA d : d.enabled)

\* DEFAULT_DEVICES (lines 71-82): one device, disabled
DEFAULT_DEVICES == <<RemoteDevice("test_device", FALSE, TRUE)>>

\* the devices create_example_config writes (lines 87-126)
example_config ==
    <<RemoteDevice("living_room", TRUE, TRUE), RemoteDevice("kitchen", TRUE, TRUE),
      RemoteDevice("office", FALSE, TRUE)>>

\* what a file holds: whether its text is JSON that fits the schema of
\* RemoteDevicesConfig (required fields present, values of the declared types),
\* and the devices it lists
File(well_formed, devices) == [well_formed |-> well_formed, devices |-> devices]

\* create_example_config (lines 85-131): open(output_path, 'w') and dump; files
\* maps the paths that exist to what they hold
create_example_config(files, output_path) ==
    [p \in DOMAIN files \cup {output_path} |->
        IF p = output_path THEN File(TRUE, example_config) ELSE files[p]]

\* load_from_file (lines 29-40): json.load and the pydantic constructor raise on
\* text that is not JSON or does not fit the schema (both shown as ValidationError)
load_from_file(files, config_path) ==
    IF config_path \notin DOMAIN files
    THEN [raised |-> "FileNotFoundError", devices |-> <<>>]
    ELSE IF ~files[config_path].well_formed
    THEN [raised |-> "ValidationError", devices |-> <<>>]
    ELSE [raised |-> "none", devices |-> files[config_path].devices]

\* the default locations of load_from_env (lines 51-55)
default_paths == <<"devices.json", "/app/devices.json", "/config/devices.json">>

\* os.getenv: None when the variable is not set; "if config_path:" (line 47)
\* takes neither None nor the empty string
getenv(set, value) == [set |-> set, value |-> value]

Truthy(v) == v.set /\ v.value # ""

\* a loader that goes on to the default locations when the requested file is missing
load_from_env_lenient(environ, files) ==
    LET found == SelectSeq(default_paths, LAMBDA p : p \in DOMAIN files) IN
    IF Truthy(environ) /\ environ.value \in DOMAIN files
    THEN load_from_file(files, environ.value)
    ELSE IF found # <<>> THEN load_from_file(files, found[1])
    ELSE [raised |-> "none", devices |-> DEFAULT_DEVICES]

\* load_from_env (lines 42-63)
load_from_env(environ, files) ==
    LET found == SelectSeq(default_paths, LAMBDA p : p \in DOMAIN files) IN
    IF Truthy(environ) THEN load_from_file(files, environ.value)
    ELSE IF found # <<>> THEN load_from_file(files, found[1])
    ELSE [raised |-> "none", devices |-> DEFAULT_DEVICES]

-----------------------------------------------------------------------------
(* Objects *)

\* DeviceConnection.__init__; stopped counts the stop() calls that have returned
\* since the last start() (history, read by no code)
DeviceConnection(device) ==
    [device |-> device, websocket |-> None, handler |-> None,
     connected |-> FALSE, should_reconnect |-> TRUE, connection_task |-> None,
     stopped |-> 0]

\* a task (kind loop, recv, emit) or a caller coroutine (kind reconnect, stop, mstop)
NewTask(kind, c) ==
    [kind |-> kind, conn |-> c, pc |-> "new", cancel |-> FALSE,
     ws |-> None, h |-> None, kids |-> <<>>, wait |-> None,
     msg |-> <<>>, exc |-> "none", n |-> 0]

\* the codec stream states made by the __init__ of the connection c (lines
\* 34-35): one reader and one writer for the life of the DeviceConnection object
opus_reader(c) == [made_by |-> c, stream |-> "OpusStreamReader"]

opus_writer(c) == [made_by |-> c, stream |-> "OpusStreamWriter"]

\* websockets.connect(...) succeeded, UnmuteHandler() constructed: the transport
\* (open, sent, closes, frames, arrived, bad), the handler made with it
\* (hstate, cleanups, received, emitted), and the codec stream states its two
\* loops decode and encode with (self.opus_reader, line 180; self.opus_writer,
\* line 227)
NewSession(c) ==
    [conn |-> c, open |-> TRUE, sent |-> <<>>, hstate |-> "new",
     closes |-> 0, cleanups |-> 0, frames |-> 0, arrived |-> <<>>, received |-> <<>>,
     bad |-> 0, emitted |-> <<>>,
     decoder |-> opus_reader(c), encoder |-> opus_writer(c)]

Finished == {"done", "cancelled", "failed"}

IsFinished(t) == t.pc \in Finished

-----------------------------------------------------------------------------
(* recorder.py: the Recorder.  Queue.put on an unbounded queue and Queue.get *)
(* on a non-empty queue return without suspending, so add_event, flush and   *)
(* shutdown are one segment each; run() suspends while it waits for the lock *)
(* and at asyncio.sleep.                                                     *)

\* Recorder.__init__ (lines 31-36): an empty queue and a free lock.  runs are
\* the tasks made of run(); waiters is the lock's queue of waiting tasks;
\* offers[e] tells whether a run() task was inside the loop when add_event was
\* called with event e; shutdowns counts the calls of shutdown()
Recorder ==
    [queue |-> <<>>, locked |-> FALSE, waiters |-> <<>>, file |-> <<>>,
     runs |-> <<>>, offers |-> <<>>, shutdowns |-> 0]

\* asyncio.create_task(recorder.run())
NewRun == [pc |-> "new", cancel |-> FALSE, fut |-> "none"]

\* asyncio.Lock._wake_up_first: the first waiter's future, unless it is done
wake_up_first(r) ==
    IF r.waiters # <<>> /\ r.runs[Head(r.waiters)].fut = "pending"
    THEN [r EXCEPT !.runs[Head(r.waiters)].fut = "done"]
    ELSE r

\* asyncio.Lock.release
release(r) == wake_up_first([r EXCEPT !.locked = FALSE])

add_event_unconditionally(r, e) == [r EXCEPT !.queue = Append(@, e)]

\* Recorder.add_event (lines 42-53)
add_event(r, e) ==
    IF ~r.locked THEN r ELSE [r EXCEPT !.queue = Append(@, e)]

flush_newest_first(r) ==
    [r EXCEPT !.file = @ \o [i \in 1..Len(r.queue) |-> r.queue[Len(r.queue) + 1 - i]],
              !.queue = <<>>]

\* Recorder.flush (lines 55-59): every queued event is taken and written
flush(r) == [r EXCEPT !.file = @ \o r.queue, !.queue = <<>>]

\* Recorder.shutdown (lines 69-72)
shutdown(r) == flush(r)

\* one turn of the while loop of Recorder._loop (lines 63-67), up to the sleep
loop_turn(r, t) ==
    [(IF Len(r.queue) >= SAVE_EVERY_N_EVENTS THEN flush(r) ELSE r)
        EXCEPT !.runs[t].pc = "sleeping"]

\* asyncio.Lock.acquire resumed: the task leaves the waiters, and on a
\* CancelledError it hands the wake-up on when the lock is free
acquired(r, t) ==
    LET left == [r EXCEPT !.waiters = SelectSeq(@, LAMBDA u : u # t)] IN
    IF r.runs[t].cancel
    THEN [(IF left.locked THEN left ELSE wake_up_first(left))
             EXCEPT !.runs[t].pc = "cancelled"]
    ELSE loop_turn([left EXCEPT !.locked = TRUE], t)

\* Recorder.run and Recorder._loop (lines 38-40, 61-67): one segment of task t
run(r, t) ==
    CASE r.runs[t].pc = "new" ->
            IF r.runs[t].cancel
            THEN [r EXCEPT !.runs[t].pc = "cancelled"]
            ELSE IF ~r.locked /\ \A i \in 1..Len(r.waiters) :
                                    r.runs[r.waiters[i]].fut = "cancelled"
                 THEN loop_turn([r EXCEPT !.locked = TRUE], t)
                 ELSE [r EXCEPT !.runs[t].pc = "acquiring",
                                !.runs[t].fut = "pending",
                                !.waiters = Append(@, t)]
      [] r.runs[t].pc = "acquiring" -> acquired(r, t)
      [] r.runs[t].pc = "sleeping" ->
            IF r.runs[t].cancel
            THEN [release(r) EXCEPT !.runs[t].pc = "cancelled"]
            ELSE loop_turn(r, t)

\* asyncio.Task.cancel on the task of run(): a pending wait for the lock is
\* cancelled at once, the CancelledError is raised when the task is resumed
cancel_run(r, t) ==
    [r EXCEPT !.runs[t].cancel = TRUE,
              !.runs[t].fut = IF @ = "pending" THEN "cancelled" ELSE @]

\* the state the segments transform
St == [conns |-> conns, tasks |-> tasks, sessions |-> sessions,
       connections |-> connections, running |-> running, response |-> response,
       env |-> env]

Commit(s) ==
    /\ conns' = s.conns
    /\ tasks' = s.tasks
    /\ sessions' = s.sessions
    /\ connections' = s.connections
    /\ running' = s.running
    /\ response' = s.response
    /\ env' = s.env
    /\ recorder' = recorder

SetPc(s, t, pc) == [s EXCEPT !.tasks[t].pc = pc]

\* the task ends: its frame is dropped
End(s, t, pc) ==
    [s EXCEPT !.tasks[t] = [NewTask(@.kind, @.conn) EXCEPT !.pc = pc]]

-----------------------------------------------------------------------------
(* asyncio *)

\* Task.cancel(): nothing on a finished task; a task awaiting the loser of the
\* duplex race (device_manager.py:142) hands the request to that task, whose
\* CancelledError the except clause of line 143 then swallows.
cancel(s, t) ==
    IF IsFinished(s.tasks[t]) \/ s.tasks[t].pc = "cancel_wait" THEN s
    ELSE [s EXCEPT !.tasks[t].cancel = TRUE]

-----------------------------------------------------------------------------
(* DeviceConnection *)

\* start() that starts the first connection whichever it is called on
start_first(s, c) ==
    LET t == Len(s.tasks) + 1 IN
    [s EXCEPT !.conns[1].should_reconnect = TRUE,
              !.conns[1].connection_task = t,
              !.conns[1].stopped = 0,
              !.tasks = Append(@, NewTask("loop", 1))]

\* DeviceConnection.start
start(s, c) ==
    LET t == Len(s.tasks) + 1 IN
    [s EXCEPT !.conns[c].should_reconnect = TRUE,
              !.conns[c].connection_task = t,
              !.conns[c].stopped = 0,
              !.tasks = Append(@, NewTask("loop", c))]

Min(a, b) == IF a < b THEN a ELSE b

\* stop() returns to its caller
stop_returned(conn) == [conn EXCEPT !.stopped = Min(@ + 1, 2)]

\* what follows the return of _cleanup in the coroutine p: the connection loop
\* ends, stop() returns, reconnect_device goes on with start() (line 218)
finish(s, p) ==
    LET c == s.tasks[p].conn IN
    IF s.tasks[p].kind = "reconnect"
    THEN [End(start([s EXCEPT !.conns[c] = stop_returned(@)], c), p, "done")
             EXCEPT !.response = 200]
    ELSE IF s.tasks[p].kind = "stop"
    THEN End([s EXCEPT !.conns[c] = stop_returned(@)], p, "done")
    ELSE End(s, p, "done")

\* _cleanup, after the transport part: handler teardown (lines 248-253)
cleanup_handler(s, p) ==
    LET c == s.tasks[p].conn
        h == s.conns[c].handler IN
    IF h # None
    THEN [SetPc(s, p, "cleaning_h") EXCEPT !.sessions[h].cleanups = @ + 1,
                                           !.sessions[h].hstate = "cleaned"]
    ELSE finish(s, p)

\* _cleanup that keeps the reference to the transport it closed
after_close_keeping(conn) == conn

\* the assignment after the awaited websocket.close() (line 246)
after_close(conn) == [conn EXCEPT !.websocket = None]

\* the assignment after the awaited handler.cleanup() (line 253)
after_handler_cleanup(conn) == [conn EXCEPT !.handler = None]

\* _cleanup up to its first suspension (lines 241-243)
cleanup(s, p) ==
    LET c == s.tasks[p].conn
        w == s.conns[c].websocket IN
    IF w # None
    THEN [SetPc(s, p, "closing_ws") EXCEPT !.sessions[w].open = FALSE,
                                           !.sessions[w].closes = @ + 1]
    ELSE cleanup_handler(s, p)

\* except Exception: pass (lines 244-245 and 251-252): the awaited call
\* returned ("ok") or raised ("fail"); the environment has one fault less to give
swallowed(s, o) == IF o = "fail" THEN [s EXCEPT !.env.faults = @ - 1] ELSE s

\* a _cleanup out of which the error of websocket.close() propagates
cleanup_closed_raising(s, p, o) ==
    LET c == s.tasks[p].conn IN
    IF o = "fail" THEN End(swallowed(s, o), p, "failed")
    ELSE cleanup_handler([s EXCEPT !.conns[c] = after_close(@)], p)

\* _cleanup resumed after websocket.close()
cleanup_closed(s, p, o) ==
    LET c == s.tasks[p].conn IN
    cleanup_handler([swallowed(s, o) EXCEPT !.conns[c] = after_close(@)], p)

\* _cleanup resumed after handler.cleanup()
cleanup_cleaned(s, p, o) ==
    LET c == s.tasks[p].conn IN
    finish([swallowed(s, o) EXCEPT !.conns[c] = after_handler_cleanup(@)], p)

\* a stop() that leaves should_reconnect as it is
stop_keeping_policy(s, p) ==
    LET c == s.tasks[p].conn
        t == s.conns[c].connection_task
        s1 == [s EXCEPT !.conns[c].connected = FALSE] IN
    IF t # None
    THEN LET s2 == cancel(s1, t) IN
         IF IsFinished(s2.tasks[t]) THEN cleanup(s2, p)
         ELSE [s2 EXCEPT !.tasks[p].pc = "await_task", !.tasks[p].wait = t]
    ELSE cleanup(s1, p)

\* DeviceConnection.stop up to its first suspension (lines 44-54)
stop(s, p) ==
    LET c == s.tasks[p].conn
        t == s.conns[c].connection_task
        s1 == [s EXCEPT !.conns[c].should_reconnect = FALSE,
                        !.conns[c].connected = FALSE] IN
    IF t # None
    THEN LET s2 == cancel(s1, t) IN
         IF IsFinished(s2.tasks[t]) THEN cleanup(s2, p)
         ELSE [s2 EXCEPT !.tasks[p].pc = "await_task", !.tasks[p].wait = t]
    ELSE cleanup(s1, p)

\* the session-configuration message (_configure_session, lines 115-121)
SessionUpdate == [type |-> "session.update", src |-> None, idx |-> 0]

\* websocket.send(m) on the transport w: the frame is written before the call suspends
Sendable(s, w) == w # None /\ s.sessions[w].open

send(s, w, m) == [s EXCEPT !.sessions[w].sent = Append(@, m)]

\* the finally clause of _connect_and_handle (line 111)
attempt_finally(conn) == [conn EXCEPT !.connected = FALSE]

\* a loop that retries whatever the device's auto_reconnect says
after_attempt_any_policy(s, t) ==
    LET c == s.tasks[t].conn IN
    IF s.conns[c].should_reconnect
    THEN SetPc(s, t, "sleeping")
    ELSE cleanup(s, t)

\* _connection_loop once _connect_and_handle has returned or raised (lines 61-70)
after_attempt(s, t) ==
    LET c == s.tasks[t].conn IN
    IF s.conns[c].should_reconnect /\ s.conns[c].device.auto_reconnect
    THEN SetPc(s, t, "sleeping")
    ELSE cleanup(s, t)

\* an attempt whose end clears the connected flag of every connection
attempt_end_all(s, t) ==
    after_attempt([s EXCEPT !.conns = [d \in DOMAIN @ |-> attempt_finally(@[d])]], t)

\* the end of an attempt that raised no CancelledError: finally, then the loop
attempt_end(s, t) ==
    LET c == s.tasks[t].conn IN
    after_attempt([s EXCEPT !.conns[c] = attempt_finally(@)], t)

\* CancelledError leaves _connect_and_handle and _connection_loop (no except catches it)
attempt_cancelled(s, t) ==
    LET c == s.tasks[t].conn IN
    End([s EXCEPT !.conns[c] = attempt_finally(@)], t, "cancelled")

\* a loop that gives up after AttemptCap attempts
loop_top_capped(s, t) ==
    LET c == s.tasks[t].conn IN
    IF s.conns[c].should_reconnect /\ s.tasks[t].n < AttemptCap
    THEN [SetPc(s, t, "connecting") EXCEPT !.tasks[t].n = Min(@ + 1, AttemptCap)]
    ELSE cleanup(s, t)

\* while self.should_reconnect (line 58), then the awaited websockets.connect (line 79)
loop_top(s, t) ==
    LET c == s.tasks[t].conn IN
    IF s.conns[c].should_reconnect
    THEN [SetPc(s, t, "connecting") EXCEPT !.tasks[t].n = Min(@ + 1, AttemptCap)]
    ELSE cleanup(s, t)

\* lines 79-93: the transport is bound, a fresh handler is made and entered
transport_established(s, t) ==
    LET c == s.tasks[t].conn
        w == Len(s.sessions) + 1 IN
    [s EXCEPT !.sessions = Append(@, NewSession(c)),
              !.env.sessions = @ - 1,
              !.conns[c].websocket = w,
              !.conns[c].handler = w,
              !.tasks[t].pc = "startup",
              !.tasks[t].h = w]

\* a connection loop out of which the error of the handler's start-up or of
\* the session configuration propagates
handler_exit_fatal(s, t, exc) ==
    LET h == s.tasks[t].h IN
    IF exc = "error"
    THEN End([s EXCEPT !.sessions[h].hstate = "exited"], t, "failed")
    ELSE [s EXCEPT !.tasks[t].pc = "aexit", !.tasks[t].exc = exc,
                   !.sessions[h].hstate = "exited"]

\* leaving "async with self.handler" (line 92): the awaited __aexit__
handler_exit(s, t, exc) ==
    LET h == s.tasks[t].h IN
    [s EXCEPT !.tasks[t].pc = "aexit", !.tasks[t].exc = exc,
              !.sessions[h].hstate = "exited"]

\* _configure_session (lines 113-123) on whatever self.websocket is now
configure_session(s, t) ==
    LET c == s.tasks[t].conn
        w == s.conns[c].websocket
        s1 == [s EXCEPT !.sessions[s.tasks[t].h].hstate = "started"] IN
    IF Sendable(s1, w)
    THEN SetPc(send(s1, w, SessionUpdate), t, "configuring")
    ELSE handler_exit(s1, t, "error")

\* line 98, then _handle_connection up to asyncio.wait (lines 129-136)
handle_connection(s, t) ==
    LET c == s.tasks[t].conn
        r == Len(s.tasks) + 1
        e == Len(s.tasks) + 2 IN
    [s EXCEPT !.conns[c].connected = TRUE,
              !.tasks = Append(Append(@, NewTask("recv", c)), NewTask("emit", c)),
              !.tasks[t].pc = "waiting",
              !.tasks[t].kids = <<r, e>>]

\* asyncio.wait returned (lines 133-144): cancel the loser and await it
first_completed(s, t) ==
    LET kids == s.tasks[t].kids
        pending == SelectSeq(kids, LAMBDA k : ~IsFinished(s.tasks[k])) IN
    IF pending = <<>>
    THEN handler_exit(s, t, "none")
    ELSE LET s1 == cancel(s, pending[1]) IN
         [s1 EXCEPT !.tasks[t].pc = "cancel_wait", !.tasks[t].wait = pending[1]]

\* what the awaited websocket.close() or handler.cleanup() may do
CleanupOutcomes(s) == IF s.env.faults > 0 THEN {"ok", "fail"} ELSE {"ok"}

\* may the connection-loop task t take a step
LoopReady(s, t) ==
    LET T == s.tasks[t] IN
    /\ T.kind = "loop"
    /\ ~IsFinished(T)
    /\ T.pc = "waiting" =>
           T.cancel \/ \E i \in 1..Len(T.kids) : IsFinished(s.tasks[T.kids[i]])
    /\ T.pc = "cancel_wait" => IsFinished(s.tasks[T.wait])

\* what the environment may answer to the awaited call of t
LoopOutcomes(s, t) ==
    LET T == s.tasks[t] IN
    IF T.cancel THEN {"cancel"}
    ELSE IF T.pc = "connecting"
         THEN (IF s.env.accepting THEN {} ELSE {"fail"})
                  \cup (IF s.env.sessions > 0 THEN {"ok"} ELSE {})
    ELSE IF T.pc = "startup"
         THEN (IF s.env.accepting THEN {"ok"} ELSE {"ok", "fail"})
    ELSE IF T.pc \in {"closing_ws", "cleaning_h"} THEN CleanupOutcomes(s)
    ELSE {"ok"}

\* one segment of _connection_loop / _connect_and_handle / _handle_connection
connection_loop(s, t, o) ==
    LET T == s.tasks[t] IN
    CASE T.pc = "new" ->
           IF o = "cancel" THEN End(s, t, "cancelled") ELSE loop_top(s, t)
      [] T.pc = "connecting" ->
           IF o = "cancel" THEN attempt_cancelled(s, t)
           ELSE IF o = "ok" THEN transport_established(s, t)
           ELSE attempt_end(s, t)
      [] T.pc = "startup" ->
           IF o = "cancel" THEN handler_exit(s, t, "cancel")
           ELSE IF o = "ok" THEN configure_session(s, t)
           ELSE handler_exit(s, t, "error")
      [] T.pc = "configuring" ->
           IF o = "cancel" THEN handler_exit(s, t, "cancel")
           ELSE handle_connection(s, t)
      [] T.pc = "waiting" ->
           IF o = "cancel" THEN handler_exit(s, t, "cancel")
           ELSE first_completed(s, t)
      [] T.pc = "cancel_wait" -> handler_exit(s, t, "none")
      [] T.pc = "aexit" ->
           IF o = "cancel" \/ T.exc = "cancel" THEN attempt_cancelled(s, t)
           ELSE attempt_end(s, t)
      [] T.pc = "sleeping" ->
           IF o = "cancel" THEN End(s, t, "cancelled") ELSE loop_top(s, t)
      [] T.pc = "closing_ws" ->
           IF o = "cancel" THEN End(s, t, "cancelled") ELSE cleanup_closed(s, t, o)
      [] T.pc = "cleaning_h" ->
           IF o = "cancel" THEN End(s, t, "cancelled") ELSE cleanup_cleaned(s, t, o)


-----------------------------------------------------------------------------
(* the inbound loop *)

\* frames the remote device may deliver
InboundKinds ==
    {"malformed", "nondict", "session.update", "other", "audio_bad", "audio", "audio0"}

\* frames whose handling reaches the codec: input_audio_buffer.append with a
\* decodable payload; "audio0" decodes to an empty PCM array
AudioKinds == {"audio", "audio0"}

\* frames that make json.loads or _process_device_message raise
BadKinds == {"malformed", "nondict"}

\* an inbound loop whose try encloses the async for: a frame that raises ends it
receive_error_fatal(s, r) == End(s, r, "failed")

\* a frame that raised in the body of the async for (lines 156-163): the
\* except clause logs it and the async for takes the next frame
receive_error(s, r) == SetPc(s, r, "recv")

\* a frame handled without error; bad = 2 records that the transport delivered
\* one that was handled after a bad one
receive_handled(s, r) ==
    LET w == s.tasks[r].ws IN
    [s EXCEPT !.tasks[r].pc = "recv", !.tasks[r].msg = <<>>,
              !.sessions[w].bad = IF @ = 1 THEN 2 ELSE @]

\* lines 182-183: forward the decoded PCM to whatever self.handler is now
forward_audio(s, r) ==
    LET c == s.tasks[r].conn
        h == s.conns[c].handler
        m == s.tasks[r].msg IN
    IF m[1] = "audio" /\ h # None
    THEN [s EXCEPT !.sessions[h].received = Append(@, m[2])]
    ELSE s

\* one frame taken from the transport (lines 155-163 and _process_device_message)
receive_frame(s, r, kind) ==
    LET w == s.tasks[r].ws
        i == s.sessions[w].frames + 1
        s1 == [s EXCEPT !.env.inbound = @ - 1,
                        !.sessions[w].frames = i,
                        !.sessions[w].arrived =
                            IF kind = "audio" THEN Append(@, i) ELSE @,
                        !.sessions[w].bad =
                            IF kind \in BadKinds /\ @ = 0 THEN 1 ELSE @] IN
    IF kind \in BadKinds THEN receive_error(s1, r)
    ELSE IF kind \in AudioKinds
         THEN [s1 EXCEPT !.tasks[r].pc = "decoding", !.tasks[r].msg = <<kind, i>>]
    ELSE receive_handled(s1, r)

RecvReady(s, r) ==
    LET T == s.tasks[r] IN
    /\ T.kind = "recv"
    /\ ~IsFinished(T)

RecvOutcomes(s, r) ==
    LET T == s.tasks[r] IN
    IF T.cancel THEN {"cancel"}
    ELSE IF T.pc = "recv"
         THEN IF ~s.sessions[T.ws].open THEN {"closed"}
              ELSE IF s.env.inbound > 0 THEN InboundKinds ELSE {}
    ELSE {"ok"}

\* one segment of _receive_loop
receive_loop(s, r, o) ==
    LET T == s.tasks[r]
        c == T.conn IN
    IF o = "cancel" THEN End(s, r, "cancelled")
    ELSE CASE T.pc = "new" ->
                IF s.conns[c].websocket = None THEN End(s, r, "failed")
                ELSE [s EXCEPT !.tasks[r].pc = "recv",
                               !.tasks[r].ws = s.conns[c].websocket]
           [] T.pc = "recv" ->
                IF o = "closed" THEN End(s, r, "failed")
                ELSE receive_frame(s, r, o)
           [] T.pc = "decoding" -> receive_handled(forward_audio(s, r), r)

-----------------------------------------------------------------------------
(* the outbound loop *)

\* what handler.emit() may return; "audio0" is audio the encoder buffers
\* without producing a frame, "error" is emit() raising
EmissionKinds == {"null", "event", "audio", "audio0", "error"}

\* while self.connected and self.handler and self.websocket (line 198), then emit()
emit_top(s, e) ==
    LET c == s.tasks[e].conn
        C == s.conns[c] IN
    IF C.connected /\ C.handler # None /\ C.websocket # None
    THEN [s EXCEPT !.tasks[e].pc = "emitting", !.tasks[e].h = C.handler,
                   !.tasks[e].msg = <<>>]
    ELSE End(s, e, "done")

\* the wire message made of the emission idx of the handler h (lines 219-233)
WireMessage(kind, h, idx) ==
    [type |-> IF kind = "event" THEN "event" ELSE "response.audio.delta",
     src |-> h, idx |-> idx]

\* does the emission put a message on the wire (lines 219, 229)
Sends(kind) == kind \in {"event", "audio"}

\* websocket.send in _send_to_device, on whatever self.websocket is now; an
\* exception re-raised by line 237 is caught by line 208, which breaks the loop
send_to_device(s, e, kind, idx) ==
    LET c == s.tasks[e].conn
        w == s.conns[c].websocket IN
    IF Sendable(s, w)
    THEN [send(s, w, WireMessage(kind, s.tasks[e].h, idx))
             EXCEPT !.tasks[e].pc = "sending", !.tasks[e].msg = <<>>]
    ELSE End(s, e, "done")

\* an emission returned by handler.emit() (lines 201-206); the handler's
\* emissions that are to reach the wire are numbered in emitted
emitted(s, e, kind) ==
    LET h == s.tasks[e].h
        s1 == [s EXCEPT !.sessions[h].emitted = IF Sends(kind) THEN Append(@, kind) ELSE @,
                        !.env.emit = @ - 1]
        idx == Len(s1.sessions[h].emitted) IN
    CASE kind = "null" -> emit_top(s1, e)
      [] kind = "error" -> End(s1, e, "done")
      [] kind = "event" -> send_to_device(s1, e, kind, idx)
      [] OTHER -> [s1 EXCEPT !.tasks[e].pc = "encoding", !.tasks[e].msg = <<kind, idx>>]

\* opus_writer.append_pcm returned (lines 227-233)
encoded(s, e) ==
    LET m == s.tasks[e].msg IN
    IF Sends(m[1]) THEN send_to_device(s, e, m[1], m[2]) ELSE emit_top(s, e)

EmitReady(s, e) ==
    LET T == s.tasks[e] IN
    /\ T.kind = "emit"
    /\ ~IsFinished(T)

EmitOutcomes(s, e) ==
    LET T == s.tasks[e] IN
    IF T.cancel THEN {"cancel"}
    ELSE IF T.pc = "emitting"
         THEN IF s.env.emit > 0 THEN EmissionKinds ELSE {}
    ELSE {"ok"}

\* one segment of _emit_loop
emit_loop(s, e, o) ==
    LET T == s.tasks[e] IN
    IF o = "cancel" THEN End(s, e, "cancelled")
    ELSE CASE T.pc = "new" -> emit_top(s, e)
           [] T.pc = "emitting" -> emitted(s, e, o)
           [] T.pc = "encoding" -> encoded(s, e)
           [] T.pc = "sending" -> emit_top(s, e)

-----------------------------------------------------------------------------
(* DeviceManager *)

DictKeys(d) == [i \in 1..Len(d) |-> d[i].name]

DictHas(d, name) == \E i \in 1..Len(d) : d[i].name = name

DictGet(d, name) == (CHOOSE i \in 1..Len(d) : d[i].name = name)

\* d[name] = c: a new key is appended, an old key keeps its place
DictSet(d, name, c) ==
    IF DictHas(d, name)
    THEN [d EXCEPT ![DictGet(d, name)].conn = c]
    ELSE Append(d, [name |-> name, conn |-> c])

\* a start() that gives up at the first device whose construction raises
start_devices_abort(s, devices, fails) ==
    LET firstFail == IF \E i \in 1..Len(devices) : devices[i].name \in fails
                     THEN CHOOSE i \in 1..Len(devices) :
                              /\ devices[i].name \in fails
                              /\ \A j \in 1..(i - 1) : devices[j].name \notin fails
                     ELSE Len(devices) + 1
        base == Len(s.conns) IN
    [s EXCEPT
        !.conns = @ \o [i \in 1..(firstFail - 1) |->
                          [DeviceConnection(devices[i]) EXCEPT
                              !.should_reconnect = TRUE,
                              !.connection_task = Len(s.tasks) + i]],
        !.tasks = @ \o [i \in 1..(firstFail - 1) |-> NewTask("loop", base + i)],
        !.connections = [i \in 1..(firstFail - 1) |->
                            [name |-> devices[i].name, conn |-> base + i]]]

\* the loop of DeviceManager.start (lines 280-288); the construction of the
\* devices named in fails raises, which line 287 logs
RECURSIVE start_devices(_, _, _)
start_devices(s, devices, fails) ==
    IF devices = <<>> THEN s
    ELSE LET d == Head(devices)
             c == Len(s.conns) + 1 IN
         IF d.name \in fails THEN start_devices(s, Tail(devices), fails)
         ELSE start_devices(
                  start([s EXCEPT !.conns = Append(@, DeviceConnection(d)),
                                  !.connections = DictSet(@, d.name, c)], c),
                  Tail(devices), fails)

\* a start() without the guard of lines 266-268
manager_start_again(s, devices, fails) ==
    start_devices([s EXCEPT !.running = TRUE], get_enabled_devices(devices), fails)

\* DeviceManager.start (lines 264-290): it has no suspension point
manager_start(s, devices, fails) ==
    IF s.running THEN s
    ELSE start_devices([s EXCEPT !.running = TRUE], get_enabled_devices(devices), fails)

\* a stop that reaches the first connection of the registry only
stop_tasks_one(s, p, i) ==
    IF i > 1 \/ s.connections = <<>> THEN s
    ELSE LET k == Len(s.tasks) + 1 IN
         [s EXCEPT !.tasks = Append(@, NewTask("stop", s.connections[1].conn)),
                   !.tasks[p].kids = Append(@, k)]

\* the stop() coroutines DeviceManager.stop hands to asyncio.gather (lines 301-306)
RECURSIVE stop_tasks(_, _, _)
stop_tasks(s, p, i) ==
    IF i > Len(s.connections) THEN s
    ELSE LET k == Len(s.tasks) + 1 IN
         stop_tasks([s EXCEPT !.tasks = Append(@, NewTask("stop", s.connections[i].conn)),
                              !.tasks[p].kids = Append(@, k)], p, i + 1)

\* DeviceManager.get_connection_status (lines 311-325), by registry entry
get_connection_status(s) ==
    [i \in 1..Len(s.connections) |->
        LET conn == s.conns[s.connections[i].conn] IN
        [name |-> s.connections[i].name,
         connected |-> conn.connected,
         auto_reconnect |-> conn.device.auto_reconnect,
         enabled |-> conn.device.enabled]]

\* a count whose enabled figure is the size of the registry
get_device_count_registry(s, devices) ==
    [total |-> Len(devices),
     enabled |-> Len(s.connections),
     connected |-> Cardinality({i \in 1..Len(s.connections) :
                                   s.conns[s.connections[i].conn].connected})]

\* DeviceManager.get_device_count (lines 327-337)
get_device_count(s, devices) ==
    [total |-> Len(devices),
     enabled |-> Len(get_enabled_devices(devices)),
     connected |-> Cardinality({i \in 1..Len(s.connections) :
                                   s.conns[s.connections[i].conn].connected})]

\* a health check that only asks whether the manager exists
health_check_initialized(inited, s, devices) == IF inited THEN 200 ELSE 503

\* health_check (main_auto_connect.py lines 123-155): the status code answered
health_check(inited, s, devices) ==
    IF ~inited THEN 503
    ELSE LET device_stats == get_device_count(s, devices) IN
         IF device_stats.connected > 0 \/ device_stats.enabled = 0 THEN 200 ELSE 503

\* a clear that drops one entry only
clear_first(s) ==
    [s EXCEPT !.connections = IF @ = <<>> THEN @ ELSE Tail(@)]

\* line 308
clear(s) == [s EXCEPT !.connections = <<>>]

\* DeviceManager.stop up to the awaited gather (lines 294-306); p is its coroutine
manager_stop(s, p) ==
    IF ~s.running THEN End(s, p, "done")
    ELSE LET s1 == [s EXCEPT !.running = FALSE] IN
         IF s1.connections = <<>> THEN End(clear(s1), p, "done")
         ELSE SetPc(stop_tasks(s1, p, 1), p, "gather")

\* a reconnect that stops the manager when the name is not found
reconnect_device_stopping(s, inited, name) ==
    IF ~inited THEN [s EXCEPT !.response = 503]
    ELSE IF ~DictHas(s.connections, name)
         THEN [s EXCEPT !.response = 404, !.running = FALSE, !.connections = <<>>]
    ELSE LET p == Len(s.tasks) + 1
             c == s.connections[DictGet(s.connections, name)].conn IN
         stop([s EXCEPT !.tasks = Append(@, NewTask("reconnect", c))], p)

\* reconnect_device (main_auto_connect.py lines 208-217) up to the first suspension
reconnect_device(s, inited, name) ==
    IF ~inited THEN [s EXCEPT !.response = 503]
    ELSE IF ~DictHas(s.connections, name) THEN [s EXCEPT !.response = 404]
    ELSE LET p == Len(s.tasks) + 1
             c == s.connections[DictGet(s.connections, name)].conn IN
         stop([s EXCEPT !.tasks = Append(@, NewTask("reconnect", c))], p)

CallReady(s, p) ==
    LET T == s.tasks[p] IN
    /\ T.kind \in {"reconnect", "stop", "mstop"}
    /\ ~IsFinished(T)
    /\ T.pc = "await_task" => IsFinished(s.tasks[T.wait])
    /\ T.pc = "gather" => \A i \in 1..Len(T.kids) : IsFinished(s.tasks[T.kids[i]])

\* what the environment may answer to the awaited call of the caller p
CallOutcomes(s, p) ==
    IF s.tasks[p].pc \in {"closing_ws", "cleaning_h"} THEN CleanupOutcomes(s) ELSE {"ok"}

\* one segment of a caller's coroutine: stop(), then for a reconnect start()
call_step(s, p, o) ==
    LET T == s.tasks[p] IN
    CASE T.pc = "new" -> stop(s, p)
      [] T.pc = "await_task" -> cleanup(s, p)
      [] T.pc = "closing_ws" -> cleanup_closed(s, p, o)
      [] T.pc = "cleaning_h" -> cleanup_cleaned(s, p, o)
      [] T.pc = "gather" -> End(clear(s), p, "done")

-----------------------------------------------------------------------------
(* The state machine *)

\* what the environment may still do (successful connects, emissions, inbound
\* frames, requests, further manager starts), whether the remote side has begun
\* to accept for good, the last request made, the devices whose connection
\* could not be constructed by the last start() that found the manager stopped,
\* the REMOTE_DEVICES_CONFIG variable, the configuration files that exist,
\* how the loading of the configuration ended, and how many of the awaited
\* websocket.close() and handler.cleanup() calls may still raise
Budget(se, em, inb, ca, st) ==
    [sessions |-> se, emit |-> em, inbound |-> inb, calls |-> ca, starts |-> st,
     accepting |-> FALSE, request |-> <<>>, failed |-> {}, faults |-> 0,
     environ |-> getenv(FALSE, ""), files |-> <<>>, load |-> "none"]

\* the state after the module is imported: device_manager is None (line 32)
InitWith(configs, budget) ==
    /\ config \in configs
    /\ device_manager = FALSE
    /\ running = FALSE
    /\ connections = <<>>
    /\ conns = <<>>
    /\ tasks = <<>>
    /\ sessions = <<>>
    /\ response = 0
    /\ recorder = Recorder
    /\ env = budget

EnabledNames == {config[i].name : i \in {j \in 1..Len(config) : config[j].enabled}}

\* lifespan startup (main_auto_connect.py lines 54-55)
Lifespan ==
    /\ ~device_manager
    /\ device_manager' = TRUE
    /\ \E fails \in SUBSET EnabledNames :
          Commit(manager_start([St EXCEPT !.env.failed = fails], config, fails))
    /\ UNCHANGED config

\* lifespan startup from the loading of the configuration on (lines 42-68): the
\* loaded devices are given to a new manager, which is started; a missing file
\* writes the example configuration and fails the startup, any other error
\* fails it
Startup ==
    /\ ~device_manager
    /\ env.load = "none"
    /\ LET loaded == load_from_env(env.environ, env.files) IN
       IF loaded.raised # "none"
       THEN /\ env' = [env EXCEPT
                          !.load = loaded.raised,
                          !.files = IF loaded.raised = "FileNotFoundError"
                                    THEN create_example_config(@, "/app/devices.json")
                                    ELSE @]
            /\ UNCHANGED <<config, device_manager, running, connections, conns,
                           tasks, sessions, response, recorder>>
       ELSE /\ config' = loaded.devices
            /\ device_manager' = TRUE
            /\ \E fails \in SUBSET {loaded.devices[i].name : i \in
                       {j \in 1..Len(loaded.devices) : loaded.devices[j].enabled}} :
                  Commit(manager_start([St EXCEPT !.env.load = "loaded",
                                                  !.env.failed = fails],
                                       loaded.devices, fails))

\* a further DeviceManager.start()
ManagerStart ==
    /\ device_manager
    /\ env.starts > 0
    /\ \E fails \in SUBSET EnabledNames :
          Commit(manager_start([St EXCEPT !.env.starts = @ - 1,
                                          !.env.failed = IF running THEN @ ELSE fails],
                               config, fails))
    /\ UNCHANGED <<config, device_manager>>

\* DeviceManager.stop() is called (lifespan shutdown, lines 75-76)
ManagerStop ==
    /\ device_manager
    /\ env.calls > 0
    /\ LET p == Len(tasks) + 1 IN
       Commit(manager_stop([St EXCEPT !.env.calls = @ - 1,
                                      !.env.request = <<"stop">>,
                                      !.tasks = Append(@, NewTask("mstop", None))], p))
    /\ UNCHANGED <<config, device_manager>>

\* POST /v1/devices/{name}/reconnect
Reconnect(name) ==
    /\ env.calls > 0
    /\ Commit(reconnect_device([St EXCEPT !.env.calls = @ - 1,
                                           !.env.request = <<"reconnect", name>>],
                               device_manager, name))
    /\ UNCHANGED <<config, device_manager>>

\* GET /v1/health
Health ==
    /\ env.calls > 0
    /\ Commit([St EXCEPT !.env.calls = @ - 1,
                         !.env.request = <<"health">>,
                         !.response = health_check(device_manager, St, config)])
    /\ UNCHANGED <<config, device_manager>>

\* DeviceConnection.stop() called on the connection c by any holder of the object
Stop(c) ==
    /\ env.calls > 0
    /\ LET p == Len(tasks) + 1 IN
       Commit(stop([St EXCEPT !.env.calls = @ - 1,
                              !.env.request = <<"stop", c>>,
                              !.tasks = Append(@, NewTask("stop", c))], p))
    /\ UNCHANGED <<config, device_manager>>

LoopStep(t) ==
    /\ LoopReady(St, t)
    /\ \E o \in LoopOutcomes(St, t) : Commit(connection_loop(St, t, o))
    /\ UNCHANGED <<config, device_manager>>

ReceiveStep(r) ==
    /\ RecvReady(St, r)
    /\ \E o \in RecvOutcomes(St, r) : Commit(receive_loop(St, r, o))
    /\ UNCHANGED <<config, device_manager>>

EmitStep(e) ==
    /\ EmitReady(St, e)
    /\ \E o \in EmitOutcomes(St, e) : Commit(emit_loop(St, e, o))
    /\ UNCHANGED <<config, device_manager>>

CallStep(p) ==
    /\ CallReady(St, p)
    /\ \E o \in CallOutcomes(St, p) : Commit(call_step(St, p, o))
    /\ UNCHANGED <<config, device_manager>>

\* the remote device closes the transport, or the network drops it; a remote
\* side that accepts keeps the transport open until the session is configured
RemoteClose(w) ==
    /\ sessions[w].open
    /\ env.accepting => conns[sessions[w].conn].connected
    /\ sessions' = [sessions EXCEPT ![w].open = FALSE]
    /\ UNCHANGED <<config, device_manager, running, connections, conns, tasks,
                   response, env, recorder>>

\* from now on the remote side accepts: the connect succeeds, the handler
\* starts up and the transport stays open until the session is configured
Accept ==
    /\ ~env.accepting
    /\ env.sessions > 0
    /\ env' = [env EXCEPT !.accepting = TRUE]
    /\ UNCHANGED <<config, device_manager, running, connections, conns, tasks,
                   sessions, response, recorder>>

ConfigNames == {config[i].name : i \in 1..Len(config)}

\* the tasks the event loop runs, and the network
Tasks ==
    \/ \E t \in 1..Len(tasks) : LoopStep(t)
    \/ \E r \in 1..Len(tasks) : ReceiveStep(r)
    \/ \E e \in 1..Len(tasks) : EmitStep(e)
    \/ \E w \in 1..Len(sessions) : RemoteClose(w)

\* the server of main_auto_connect.py: the lifespan starts the manager once
Next ==
    \/ Lifespan
    \/ ManagerStop
    \/ \E name \in ConfigNames : Reconnect(name)
    \/ \E p \in 1..Len(tasks) : CallStep(p)
    \/ Tasks

\* one enabled device "a" (with either reconnect policy) and one disabled device "b"
Configs ==
    {<<RemoteDevice("a", TRUE, ar), RemoteDevice("b", FALSE, TRUE)>> : ar \in BOOLEAN}

Init == InitWith(Configs, Budget(MaxSessions, MaxEmit, MaxInbound, MaxCalls, 0))

Spec == Init /\ [][Next]_vars

\* the server whose sessions carry no message but the configuration
InitControl == InitWith(Configs, Budget(ControlSessions, 0, 0, ControlCalls, 0))

SpecControl == InitControl /\ [][Next]_vars

\* the server with two enabled devices, one of each reconnect policy
FleetConfigs == {<<RemoteDevice("a", TRUE, TRUE), RemoteDevice("b", TRUE, FALSE)>>}

InitFleet == InitWith(FleetConfigs, Budget(FleetSessions, 0, 0, FleetCalls, 0))

SpecFleet == InitFleet /\ [][Next]_vars

\* one connection whose stop() is called by holders of the object
NextCalls ==
    \/ Lifespan
    \/ \E c \in 1..Len(conns) : Stop(c)
    \/ \E p \in 1..Len(tasks) : CallStep(p)
    \/ Tasks

InitCalls == InitWith(Configs, Budget(CallsSessions, 0, 0, CallsCalls, 0))

SpecCalls == InitCalls /\ [][NextCalls]_vars

\* one session and its two loops, nobody stopping it
NextDuplex ==
    \/ Lifespan
    \/ Tasks

InitDuplex ==
    InitWith(Configs, Budget(DuplexSessions, DuplexEmit, DuplexInbound, 0, 0))

SpecDuplex == InitDuplex /\ [][NextDuplex]_vars

\* a connection nobody stops, whose remote side at some point begins to accept;
\* the event loop runs every task that is ready
NextLive ==
    \/ Lifespan
    \/ Accept
    \/ Tasks

LiveConfigs == {<<RemoteDevice("a", TRUE, TRUE)>>}

InitLive == InitWith(LiveConfigs, Budget(LiveSessions, LiveEmit, 0, 0, 0))

Fairness ==
    /\ WF_vars(\E t \in 1..Len(tasks) : LoopStep(t))
    /\ WF_vars(\E r \in 1..Len(tasks) : ReceiveStep(r))
    /\ WF_vars(\E e \in 1..Len(tasks) : EmitStep(e))

SpecLive == InitLive /\ [][NextLive]_vars /\ Fairness

\* a fleet whose manager is stopped by callers that may overlap
NextStops ==
    \/ Lifespan
    \/ ManagerStop
    \/ \E p \in 1..Len(tasks) : CallStep(p)
    \/ Tasks

InitStops == InitWith(FleetConfigs, Budget(StopsSessions, 0, 0, StopsCalls, 0))

SpecStops == InitStops /\ [][NextStops]_vars

\* a manager whose start() and stop() are called by holders of the object
NextManager ==
    \/ Lifespan
    \/ ManagerStart
    \/ ManagerStop
    \/ \E p \in 1..Len(tasks) : CallStep(p)
    \/ Tasks

InitManager ==
    InitWith(Configs, Budget(ManagerSessions, 0, 0, ManagerCalls, ManagerStarts))

SpecManager == InitManager /\ [][NextManager]_vars

\* a manager that nobody stops and whose start() is called again
NextRestart ==
    \/ Lifespan
    \/ ManagerStart
    \/ Tasks

InitRestart == InitWith(Configs, Budget(RestartSessions, 0, 0, 0, RestartStarts))

SpecRestart == InitRestart /\ [][NextRestart]_vars

\* the server with one enabled device and two requests that may overlap
InitOverlap == InitWith(Configs, Budget(OverlapSessions, 0, 0, OverlapCalls, 0))

SpecOverlap == InitOverlap /\ [][Next]_vars

\* two devices left to themselves: connects, handlers and transports may fail
InitFaults == InitWith(FleetConfigs, Budget(FaultsSessions, 0, 0, 0, 0))

SpecFaults == InitFaults /\ [][NextDuplex]_vars

\* the server from the loading of its configuration on: the variable may be
\* unset, empty, or name a default or another location; any of the locations may
\* hold a file, with an enabled or a disabled device
NextLoad ==
    \/ Startup
    \/ Tasks

Environs ==
    {getenv(FALSE, "")} \cup
    {getenv(TRUE, v) : v \in {"", "/app/devices.json", "/etc/unmute/devices.json"}}

Paths == {default_paths[i] : i \in 1..Len(default_paths)} \cup {"/etc/unmute/devices.json"}

FileContents ==
    {File(TRUE, <<RemoteDevice("a", TRUE, TRUE)>>),
     File(TRUE, <<RemoteDevice("a", FALSE, TRUE), RemoteDevice("b", FALSE, TRUE)>>)}

FileSystems == UNION {[S -> FileContents] : S \in SUBSET Paths}

InitLoad ==
    /\ config = <<>>
    /\ device_manager = FALSE
    /\ running = FALSE
    /\ connections = <<>>
    /\ conns = <<>>
    /\ tasks = <<>>
    /\ sessions = <<>>
    /\ response = 0
    /\ recorder = Recorder
    /\ env \in {[Budget(LoadSessions, 0, 0, 0, 0) EXCEPT !.environ = e, !.files = f] :
                    e \in Environs, f \in FileSystems}

SpecLoad == InitLoad /\ [][NextLoad]_vars

\* the startup over one configuration file at the first default location: text
\* that does not fit the schema, one device, two devices of the same name, and a
\* device whose reconnect_delay is negative
ParseContents ==
    {File(FALSE, <<>>),
     File(TRUE, <<RemoteDevice("a", TRUE, TRUE)>>),
     File(TRUE, <<RemoteDevice("a", TRUE, TRUE), RemoteDevice("a", TRUE, FALSE)>>),
     File(TRUE, <<[RemoteDevice("a", TRUE, TRUE) EXCEPT !.reconnect_delay = -1]>>)}

InitParse ==
    /\ config = <<>>
    /\ device_manager = FALSE
    /\ running = FALSE
    /\ connections = <<>>
    /\ conns = <<>>
    /\ tasks = <<>>
    /\ sessions = <<>>
    /\ response = 0
    /\ recorder = Recorder
    /\ env \in {[Budget(ParseSessions, 0, 0, 0, 0) EXCEPT
                     !.files = [p \in {default_paths[1]} |-> f]] : f \in ParseContents}

SpecParse == InitParse /\ [][NextLoad]_vars

\* one connection that is stopped by a holder of the object, and whose
\* websocket.close() and handler.cleanup() may raise
InitCleanup ==
    InitWith(Configs, [Budget(CleanupSessions, 0, 0, CleanupCalls, 0) EXCEPT
                          !.faults = CleanupFaults])

SpecCleanup == InitCleanup /\ [][NextCalls]_vars

\* the server whose health is asked, with one enabled device or none
NextHealth ==
    \/ Lifespan
    \/ ManagerStop
    \/ Health
    \/ \E p \in 1..Len(tasks) : CallStep(p)
    \/ Tasks

HealthConfigs == Configs \cup {<<RemoteDevice("b", FALSE, TRUE)>>}

InitHealth == InitWith(HealthConfigs, Budget(HealthSessions, 0, 0, HealthCalls, 0))

SpecHealth == InitHealth /\ [][NextHealth]_vars

\* the server with one enabled device and reconnect requests that may overlap
NextReconnects ==
    \/ Lifespan
    \/ \E name \in ConfigNames : Reconnect(name)
    \/ \E p \in 1..Len(tasks) : CallStep(p)
    \/ Tasks

InitReconnects ==
    InitWith(LiveConfigs, Budget(ReconnectsSessions, 0, 0, ReconnectsCalls, 0))

SpecReconnects == InitReconnects /\ [][NextReconnects]_vars

-----------------------------------------------------------------------------
(* Claims *)

\* C1: on every transport the first message sent is the session.update
\* configuration message; no server event and no response.audio.delta precedes it.
C1_ConfigurationFirst ==
    \A w \in 1..Len(sessions) :
        sessions[w].sent # <<>> => sessions[w].sent[1].type = "session.update"

\* no other connection loop of the connection of t is running (a manual
\* reconnect starts a new one)
OnlyLoop(t) ==
    \A u \in 1..Len(tasks) :
        (u # t /\ tasks[u].kind = "loop" /\ tasks[u].conn = tasks[t].conn)
            => IsFinished(tasks[u])

\* C2: the connection loop of a device with auto_reconnect = false makes one
\* connect attempt at most and never enters the backoff sleep; once that attempt is
\* over (the loop is in its cleanup or has ended) connected is false, unless a
\* loop started by a later start() is running.
C2_StopsWithoutPolicy ==
    \A t \in 1..Len(tasks) :
        (tasks[t].kind = "loop" /\ ~conns[tasks[t].conn].device.auto_reconnect) =>
            /\ tasks[t].n <= 1
            /\ tasks[t].pc # "sleeping"
            /\ (OnlyLoop(t) /\ tasks[t].pc \in {"closing_ws", "cleaning_h"} \cup Finished)
                   => ~conns[tasks[t].conn].connected

\* the session of a device without auto_reconnect has ended while nobody stopped
\* the connection, and its loop closes the transport instead of retrying
C2_Witness ==
    \E t \in 1..Len(tasks) :
        /\ tasks[t].kind = "loop"
        /\ ~conns[tasks[t].conn].device.auto_reconnect
        /\ conns[tasks[t].conn].should_reconnect
        /\ ~tasks[t].cancel
        /\ tasks[t].pc = "closing_ws"
        /\ tasks[t].n = 1

\* a step of the connection loop out of a failed connect or out of a session
\* leads to the backoff sleep, and the step out of the sleep to a connect attempt
RetryStep ==
    \A t \in 1..Len(tasks) :
        tasks[t].kind = "loop" =>
            /\ (tasks[t].pc = "connecting" /\ tasks'[t].pc \notin {"connecting", "startup"})
                   => tasks'[t].pc = "sleeping"
            /\ (tasks[t].pc = "aexit" /\ tasks'[t].pc # "aexit")
                   => tasks'[t].pc = "sleeping"
            /\ (tasks[t].pc = "sleeping" /\ tasks'[t].pc # "sleeping")
                   => /\ tasks'[t].pc = "connecting"
                      /\ tasks'[t].n = Min(tasks[t].n + 1, AttemptCap)

Accepting1 == Len(conns) >= 1 /\ env.accepting

Connected1 == Len(conns) >= 1 /\ conns[1].connected

\* C3: with auto_reconnect = true and stop() never called, every failed connect
\* and every session end leads to the backoff sleep and from there to another
\* connect attempt, however many attempts were made; and when the event loop is
\* fair and the remote side accepts from some point on, connected becomes true.
C3_RetriesUntilConnected ==
    /\ [][RetryStep]_vars
    /\ (<>Accepting1 => <>(Accepting1 /\ Connected1))

\* connected after at least one attempt that failed
C3_Witness ==
    /\ Accepting1
    /\ Connected1
    /\ tasks[conns[1].connection_task].n >= 2

\* the step is the call of stop() on the connection c
StopCalled(c) ==
    /\ Len(tasks') = Len(tasks) + 1
    /\ tasks'[Len(tasks')].kind = "stop"
    /\ tasks'[Len(tasks')].conn = c

\* C4: a stop() called on a connection on which a stop() has already returned
\* (and that was not started since) returns at once without error, closes no
\* transport, tears down no handler and changes no field of the connection.
C4_StopIdempotent ==
    [][\A c \in 1..Len(conns) :
          (StopCalled(c) /\ conns[c].stopped >= 1) =>
              /\ tasks'[Len(tasks')].pc = "done"
              /\ sessions' = sessions
              /\ conns' = [conns EXCEPT ![c] = stop_returned(@)]
              /\ SubSeq(tasks', 1, Len(tasks)) = tasks]_vars

\* two stop() calls have returned on a connection whose transport and handler the
\* first one had to close and tear down
C4_Witness ==
    \E c \in 1..Len(conns) :
        /\ conns[c].stopped = 2
        /\ \E w \in 1..Len(sessions) :
              /\ sessions[w].conn = c
              /\ sessions[w].closes = 1
              /\ sessions[w].cleanups = 1

\* C5: once stop() has returned on a connection (and until it is started again)
\* no connection loop, inbound loop or outbound loop of that connection is running.
C5_NoTaskAfterStop ==
    \A t \in 1..Len(tasks) :
        (tasks[t].kind \in {"loop", "recv", "emit"} /\ conns[tasks[t].conn].stopped >= 1)
            => IsFinished(tasks[t])

\* C6: the step in which a frame that fails to parse (or whose processing
\* raises) arrives on a transport leaves every inbound loop reading that
\* transport running and waiting for the next frame.
C6_MalformedNotFatal ==
    [][\A r \in 1..Len(tasks) :
          (/\ tasks[r].kind = "recv"
           /\ tasks[r].pc = "recv"
           /\ sessions'[tasks[r].ws].frames = sessions[tasks[r].ws].frames + 1
           /\ sessions[tasks[r].ws].bad = 0
           /\ sessions'[tasks[r].ws].bad = 1)
              => tasks'[r] = tasks[r]]_vars

\* after a bad frame a well-formed audio frame arrived on the same transport and
\* was handed to the handler
C6_Witness ==
    \E w \in 1..Len(sessions) :
        /\ sessions[w].bad = 2
        /\ sessions[w].received # <<>>

\* what the outbound loops sent on the transport w
Outbound(w) == SelectSeq(sessions[w].sent, LAMBDA m : m.type # "session.update")

\* C7: on every transport the messages sent by the outbound loop are, in order,
\* the wire forms of emissions of that session's handler.
C7_OrderPreservingImage ==
    \A w \in 1..Len(sessions) :
        \A i \in 1..Len(Outbound(w)) :
            LET m == Outbound(w)[i] IN
            /\ m.src = w
            /\ m.idx \in 1..Len(sessions[w].emitted)
            /\ m = WireMessage(sessions[w].emitted[m.idx], w, m.idx)
            /\ i > 1 => Outbound(w)[i - 1].idx < m.idx

\* the names of the enabled devices, in config order
EnabledNameSeq ==
    [i \in 1..Len(get_enabled_devices(config)) |-> get_enabled_devices(config)[i].name]

\* the place of a device name in the config
PosOf(name) == CHOOSE k \in 1..Len(config) : config[k].name = name

\* C8 (as amended): no connection is ever made for a disabled device; every
\* registry key is the name of the enabled device of its connection, the keys are
\* in config order, while the manager runs every connection that could be
\* constructed is registered, and the enabled count leaves the disabled devices out.
C8_DisabledNeverManaged ==
    /\ \A c \in 1..Len(conns) : conns[c].device.enabled
    /\ \A i \in 1..Len(connections) :
          /\ connections[i].name = conns[connections[i].conn].device.name
          /\ connections[i].name \in EnabledNames
          /\ \A j \in 1..Len(connections) :
                i < j => PosOf(connections[i].name) < PosOf(connections[j].name)
    /\ running => Len(connections) = Len(conns)
    /\ get_device_count(St, config).enabled =
           Cardinality({k \in 1..Len(config) : config[k].enabled})

\* the manager was started on a config with a disabled device
C8_Witness ==
    /\ running
    /\ DictKeys(connections) = <<"a">>
    /\ \E k \in 1..Len(config) : ~config[k].enabled
    /\ get_device_count(St, config) = [total |-> 2, enabled |-> 1, connected |-> 1]

\* C8 as stated: after start() the registry keys are exactly the names of the
\* enabled devices.
C8_KeysExactlyEnabled ==
    running => DictKeys(connections) = EnabledNameSeq

\* the step answers a reconnect request for a name the registry does not hold
UnmanagedReconnect ==
    /\ device_manager
    /\ env'.calls < env.calls
    /\ env'.request[1] = "reconnect"
    /\ ~DictHas(connections, env'.request[2])

\* C9: a reconnect request for a name that is not a key of the manager's registry
\* is answered 404 and changes neither the registry nor any connection, task,
\* transport or handler.
C9_UnmanagedNotFound ==
    [][UnmanagedReconnect =>
          /\ response' = 404
          /\ connections' = connections
          /\ running' = running
          /\ conns' = conns
          /\ tasks' = tasks
          /\ sessions' = sessions]_vars

\* a reconnect of the disabled device was refused while the registry held a
\* connection
C9_Witness ==
    /\ device_manager
    /\ connections # <<>>
    /\ env.request = <<"reconnect", "b">>
    /\ response = 404

\* the step is one of the reconnect request's coroutine p
ReconnectStep(p) ==
    /\ tasks'[p].kind = "reconnect"
    /\ p > Len(tasks) \/ tasks'[p] # tasks[p]

\* the step leaves every connection but c as it is
OthersUntouched(c) ==
    /\ connections' = connections
    /\ running' = running
    /\ Len(conns') = Len(conns)
    /\ \A d \in 1..Len(conns) : d # c => conns'[d] = conns[d]
    /\ \A t \in 1..Len(tasks) : tasks[t].conn # c => tasks'[t] = tasks[t]
    /\ Len(sessions') = Len(sessions)
    /\ \A w \in 1..Len(sessions) : sessions[w].conn # c => sessions'[w] = sessions[w]

\* C10: every step of a reconnect of a managed device leaves the other
\* connections, their tasks, transports and handlers as they are; its first step
\* is the beginning of stop() (should_reconnect and connected cleared); while
\* stop() runs the request gives the connection no new task; and the step in which
\* stop() returns, the awaited loop task having ended, is the one that starts the
\* connection again with a new loop task.
C10_ReconnectOneConnection ==
    [][\A p \in 1..Len(tasks') :
          ReconnectStep(p) =>
              LET c == tasks'[p].conn
                  fresh == p > Len(tasks)
                  awaited == IF fresh THEN conns[c].connection_task ELSE tasks[p].wait
                  before == IF fresh THEN p ELSE Len(tasks) IN
              /\ OthersUntouched(c)
              /\ IF tasks'[p].pc = "done"
                 THEN /\ response' = 200
                      /\ conns'[c].stopped = 0
                      /\ conns'[c].should_reconnect
                      /\ conns'[c].connection_task = Len(tasks')
                      /\ tasks'[Len(tasks')] = NewTask("loop", c)
                      /\ Len(tasks') = before + 1
                      /\ awaited # None => IsFinished(tasks'[awaited])
                 ELSE /\ conns'[c].connection_task = conns[c].connection_task
                      /\ Len(tasks') = before
                      /\ fresh => ~conns'[c].should_reconnect /\ ~conns'[c].connected]_vars

\* a reconnect of a device whose session was active has completed while the
\* other device's session went on
C10_Witness ==
    \E p \in 1..Len(tasks) :
        /\ tasks[p].kind = "reconnect"
        /\ tasks[p].pc = "done"
        /\ \E w \in 1..Len(sessions) :
              sessions[w].conn = tasks[p].conn /\ sessions[w].closes >= 1
        /\ \E d \in 1..Len(conns) : d # tasks[p].conn /\ conns[d].connected

\* a DeviceManager.stop() coroutine exists and every one of them has returned
StopsReturned ==
    /\ \E p \in 1..Len(tasks) : tasks[p].kind = "mstop"
    /\ \A p \in 1..Len(tasks) : tasks[p].kind = "mstop" => IsFinished(tasks[p])

\* the connection c is stopped: no policy to reconnect, not connected, no
\* transport, no handler, its connection loop ended
Stopped(c) ==
    /\ ~conns[c].should_reconnect
    /\ ~conns[c].connected
    /\ conns[c].websocket = None
    /\ conns[c].handler = None
    /\ conns[c].connection_task # None => IsFinished(tasks[conns[c].connection_task])

\* the step is a call of DeviceManager.stop() made while an earlier call awaits
\* the stop() of its connections
StopDuringStop ==
    /\ Len(tasks') = Len(tasks) + 1
    /\ tasks'[Len(tasks')].kind = "mstop"
    /\ \E p \in 1..Len(tasks) : tasks[p].kind = "mstop" /\ tasks[p].pc = "gather"

\* C11: when the stop() calls of two (or more) callers that may overlap have all
\* returned, the manager is not running, the registry is empty and every
\* connection is stopped; the registry is emptied in one step, no step leaves it
\* with some of its entries; and a call made while another is in progress
\* returns at once and changes nothing.
C11_OverlappingStops ==
    /\ [](StopsReturned =>
            /\ ~running
            /\ connections = <<>>
            /\ \A c \in 1..Len(conns) : Stopped(c))
    /\ [][connections' # connections => connections' = <<>>
             \/ connections = <<>>]_vars
    /\ [][StopDuringStop =>
             /\ tasks'[Len(tasks')].pc = "done"
             /\ SubSeq(tasks', 1, Len(tasks)) = tasks
             /\ <<running', connections', conns', sessions'>> =
                    <<running, connections, conns, sessions>>]_vars

\* two stop() calls have returned on a fleet of two connections one of which had
\* an open transport to close
C11_Witness ==
    /\ Cardinality({p \in 1..Len(tasks) : tasks[p].kind = "mstop"}) = 2
    /\ StopsReturned
    /\ Len(conns) = 2
    /\ \E w \in 1..Len(sessions) : sessions[w].closes >= 1

\* the step in which the DeviceManager.stop() coroutine p returns from its gather
StopCompletes(p) ==
    /\ tasks[p].kind = "mstop"
    /\ tasks[p].pc = "gather"
    /\ tasks'[p].pc = "done"

\* C12: while DeviceManager.stop() awaits, the registry is still whole and every
\* managed connection has a stop() coroutine of its own among the awaited ones;
\* the call completes only when every one of them has ended, whatever its
\* outcome, clears the registry in that step, and leaves every formerly managed
\* connection with connected = false and should_reconnect = false.
C12_StopsAllThenClears ==
    /\ [](\A p \in 1..Len(tasks) :
            (tasks[p].kind = "mstop" /\ tasks[p].pc = "gather") =>
                /\ connections # <<>>
                /\ Len(tasks[p].kids) = Len(connections)
                /\ \A i \in 1..Len(connections) :
                      /\ tasks[tasks[p].kids[i]].kind = "stop"
                      /\ tasks[tasks[p].kids[i]].conn = connections[i].conn)
    /\ [][\A p \in 1..Len(tasks) :
             StopCompletes(p) =>
                 /\ \A i \in 1..Len(tasks[p].kids) : IsFinished(tasks[tasks[p].kids[i]])
                 /\ connections' = <<>>
                 /\ \A i \in 1..Len(connections) :
                       /\ ~conns'[connections[i].conn].connected
                       /\ ~conns'[connections[i].conn].should_reconnect]_vars

\* a stop() of the manager has completed after the stop() of each of its two
\* connections ended, one of which had a session to close
C12_Witness ==
    /\ ~running
    /\ connections = <<>>
    /\ Cardinality({k \in 1..Len(tasks) :
                       tasks[k].kind = "stop" /\ IsFinished(tasks[k])}) = 2
    /\ \E w \in 1..Len(sessions) : sessions[w].closes = 1 /\ sessions[w].cleanups = 1

\* a connection loop of the connection c is running
LiveLoop(c) ==
    \E t \in 1..Len(tasks) :
        tasks[t].kind = "loop" /\ tasks[t].conn = c /\ ~IsFinished(tasks[t])

Registered(c) == \E i \in 1..Len(connections) : connections[i].conn = c

\* no call of DeviceManager.stop() is in progress
NoStopInProgress ==
    \A p \in 1..Len(tasks) : tasks[p].kind = "mstop" => IsFinished(tasks[p])

\* C13: when no call on the manager is in progress the state is the result of
\* the calls made, run one after the other: after a start() the manager runs and
\* every connection with a running loop task is an entry of the registry; after
\* a stop() the manager does not run, the registry is empty and no connection
\* loop is running.
C13_Serializable ==
    (device_manager /\ NoStopInProgress) =>
        IF running
        THEN \A c \in 1..Len(conns) : LiveLoop(c) => Registered(c)
        ELSE /\ connections = <<>>
             /\ \A c \in 1..Len(conns) : ~LiveLoop(c)

\* C14 (as amended): get_device_count() returns total = the number of configured
\* devices, enabled = the number of configured devices whose enabled flag is set,
\* whatever the registry holds (the registry is never larger), and connected =
\* the number of registered connections whose connected flag is true.
C14_Counts ==
    device_manager =>
        LET count == get_device_count(St, config) IN
        /\ count.total = Cardinality(DOMAIN config)
        /\ count.enabled = Cardinality({k \in 1..Len(config) : config[k].enabled})
        /\ Len(connections) <= count.enabled
        /\ count.connected =
               Cardinality({c \in 1..Len(conns) : Registered(c) /\ conns[c].connected})

\* the counts after stop() has cleared the registry of a manager that had a
\* connected device
C14_Witness ==
    /\ device_manager
    /\ ~running
    /\ connections = <<>>
    /\ \E w \in 1..Len(sessions) : sessions[w].closes = 1
    /\ get_device_count(St, config) = [total |-> 2, enabled |-> 1, connected |-> 0]

\* C14 as stated: in every state the enabled count is the size of the registry.
C14_EnabledIsRegistrySize ==
    device_manager => get_device_count(St, config).enabled = Len(connections)

\* the connection loop the connection c refers to is in its backoff sleep or in
\* a connect attempt that has not sent the session configuration
Retrying(c) ==
    LET t == conns[c].connection_task IN
    /\ t # None
    /\ tasks[t].pc \in {"sleeping", "connecting", "startup"}

\* C15: the status reports connected = false for every registered device whose
\* connection is in its backoff sleep or in a connect attempt that has not yet
\* sent the session configuration.
C15_RetryingNotConnected ==
    \A i \in 1..Len(connections) :
        Retrying(connections[i].conn) => ~get_connection_status(St)[i].connected

\* after the step the device has a started connection recorded under its name
StartedUnderName(device) ==
    /\ DictHas(connections', device.name)
    /\ LET c == connections'[DictGet(connections', device.name)].conn
           t == conns'[c].connection_task IN
       /\ conns'[c].device = device
       /\ conns'[c].should_reconnect
       /\ t \in (Len(tasks) + 1)..Len(tasks')
       /\ tasks'[t] = NewTask("loop", c)

\* C16: a start() that finds the manager stopped leaves every enabled device
\* whose connection could be constructed with a started connection recorded
\* under its name, whichever other devices failed, and records nothing for the
\* devices that failed.
C16_FailureDoesNotAbort ==
    [][(~running /\ running') =>
          \A k \in 1..Len(config) :
              /\ (config[k].enabled /\ config[k].name \notin env'.failed)
                     => StartedUnderName(config[k])
              /\ config[k].name \in env'.failed
                     => ~DictHas(connections', config[k].name)]_vars

\* the first enabled device could not be constructed and the second one has a
\* connection, whose loop has begun to connect
C16_Witness ==
    /\ running
    /\ env.failed = {"a"}
    /\ DictKeys(connections) = <<"b">>
    /\ \E c \in 1..Len(conns) :
          /\ conns[c].device.name = "b"
          /\ conns[c].connection_task # None
          /\ tasks[conns[c].connection_task].pc = "connecting"

\* the step is a call of DeviceManager.start() on a manager that is running
StartWhileRunning ==
    /\ running
    /\ env'.starts < env.starts

\* C17: a DeviceManager.start() called while the manager runs creates no
\* connection, starts no task and leaves the running flag, the registry, every
\* connection, every task and every transport as they are.
C17_StartWhileRunningNoOp ==
    [][StartWhileRunning =>
          /\ running' = running
          /\ connections' = connections
          /\ conns' = conns
          /\ tasks' = tasks
          /\ sessions' = sessions]_vars

\* start() was called again on a manager that nobody has stopped and whose
\* device is connected
C17_Witness ==
    /\ running
    /\ env.starts < RestartStarts
    /\ env.request = <<>>
    /\ Len(conns) = 1
    /\ conns[1].connected

\* the step is a failure on the connection c: a connect error, a handler or
\* configuration error, or a transport error that ends one of the two loops
FailureOn(c) ==
    \E t \in 1..Len(tasks) :
        /\ tasks[t].conn = c
        /\ \/ /\ tasks[t].kind = "loop"
              /\ tasks[t].pc = "connecting"
              /\ ~tasks[t].cancel
              /\ tasks'[t].pc \notin {"connecting", "startup"}
           \/ /\ tasks[t].kind = "loop"
              /\ tasks[t].pc \in {"startup", "configuring"}
              /\ tasks'[t].pc = "aexit"
              /\ tasks'[t].exc = "error"
           \/ /\ tasks[t].kind \in {"recv", "emit"}
              /\ ~IsFinished(tasks[t])
              /\ tasks'[t].pc = "failed"

\* C18: the step in which a connect error, a handler error or a transport error
\* occurs on one connection changes nothing of any other connection (its fields,
\* its tasks, its transports and handlers), nor the manager's running flag or
\* registry.
C18_FailureIsLocal ==
    [][\A c \in 1..Len(conns) : FailureOn(c) => OthersUntouched(c)]_vars

\* a transport error ended a session of one device, whose loop went on to
\* another attempt, while the other device is connected
C18_Witness ==
    \E c, d \in 1..Len(conns) :
        /\ c # d
        /\ conns[d].connected
        /\ \E r \in 1..Len(tasks) :
              tasks[r].kind = "recv" /\ tasks[r].conn = c /\ tasks[r].pc = "failed"
        /\ \E t \in 1..Len(tasks) :
              tasks[t].kind = "loop" /\ tasks[t].conn = c /\ tasks[t].n >= 2

\* C19: two sessions of the same connection share no handler (the handler of a
\* session is the one made with its transport, a new one at every successful
\* connect) and no codec stream state: their decoders differ and their encoders
\* differ.
C19_FreshHandlerAndCodec ==
    \A v, w \in 1..Len(sessions) :
        (v # w /\ sessions[v].conn = sessions[w].conn) =>
            /\ sessions[v].decoder # sessions[w].decoder
            /\ sessions[v].encoder # sessions[w].encoder

\* the step is the loading of the configuration at startup
Loading == env.load = "none" /\ env'.load # "none"

\* no default location holds a file
NoDefaultFile == \A i \in 1..Len(default_paths) : default_paths[i] \notin DOMAIN env.files

\* C20: when REMOTE_DEVICES_CONFIG names a file that does not exist, loading
\* raises FileNotFoundError whatever the default locations hold: no configuration
\* is loaded, no manager is made and nothing is started; when the variable is
\* not set and no default location holds a file, loading returns the built-in
\* default set, every device of which is disabled, and the start() that follows
\* makes no connection and no task, then and ever after.
C20_LoadingFailsClosed ==
    /\ [][Loading =>
             /\ (Truthy(env.environ) /\ env.environ.value \notin DOMAIN env.files) =>
                    /\ env'.load = "FileNotFoundError"
                    /\ config' = <<>>
                    /\ ~device_manager'
                    /\ ~running'
                    /\ conns' = <<>> /\ tasks' = <<>>
             /\ (~env.environ.set /\ NoDefaultFile) =>
                    /\ env'.load = "loaded"
                    /\ config' = DEFAULT_DEVICES
                    /\ \A k \in 1..Len(config') : ~config'[k].enabled
                    /\ connections' = <<>>
                    /\ conns' = <<>> /\ tasks' = <<>>]_vars
    /\ []((env.load = "loaded" /\ config = DEFAULT_DEVICES) =>
              (conns = <<>> /\ tasks = <<>> /\ sessions = <<>>))
    /\ [](env.load = "FileNotFoundError" => (~device_manager /\ tasks = <<>>))

\* the loading raised for a requested file that is missing although a default
\* location held a configuration with an enabled device
C20_Witness ==
    /\ env.load = "FileNotFoundError"
    /\ env.environ = getenv(TRUE, "/etc/unmute/devices.json")
    /\ "devices.json" \in DOMAIN env.files
    /\ env.files["devices.json"] = File(TRUE, <<RemoteDevice("a", TRUE, TRUE)>>)

\* a list of devices a configuration may hold: names pairwise distinct and
\* no negative reconnect_delay
WellConfigured(devices) ==
    /\ \A i, j \in 1..Len(devices) : devices[i].name = devices[j].name => i = j
    /\ \A i \in 1..Len(devices) : devices[i].reconnect_delay >= 0

\* C21: loading fails with a configuration error when the source is malformed,
\* in particular when two devices share a name or a device has a negative
\* reconnect_delay; so every loaded registry has pairwise distinct device names
\* and no negative reconnect_delay.
C21_LoadedIsWellConfigured ==
    /\ env.load = "loaded" => WellConfigured(config)
    /\ (env.load # "none" /\ \E p \in DOMAIN env.files :
            ~env.files[p].well_formed \/ ~WellConfigured(env.files[p].devices))
           => env.load = "ValidationError"

\* C22: generating the example configuration never overwrites an existing
\* configuration: a file that exists at the output path, /app/devices.json when
\* the startup handles a missing requested file included, holds the same
\* content after the operation.
C22_ExampleNeverOverwrites ==
    [][\A p \in DOMAIN env.files : env'.files[p] = env.files[p]]_vars

\* the step is the first segment of a stop() on the connection c, called by
\* the manager's stop or by a reconnect request
StopBegins(c) ==
    \E p \in 1..Len(tasks') :
        /\ tasks'[p].kind \in {"stop", "reconnect"}
        /\ tasks'[p].conn = c
        /\ tasks'[p].pc # "new"
        /\ p > Len(tasks) \/ tasks[p].pc = "new"

\* the step is the start() that ends a reconnect request for the connection c
ReconnectStarts(c) ==
    \E p \in 1..Len(tasks') :
        /\ ReconnectStep(p)
        /\ tasks'[p].conn = c
        /\ tasks'[p].pc = "done"
        /\ Len(tasks') > Len(tasks)
        /\ tasks'[Len(tasks')].kind = "loop" /\ tasks'[Len(tasks')].conn = c
        /\ conns'[c].connection_task = Len(tasks')

\* C23 as stated: should_reconnect is set true on start() and cleared exactly
\* once, at explicit stop(), and is never set again for the rest of the
\* connection's lifetime, a manual reconnect included.
C23_NeverSetAgain ==
    [][\A c \in 1..Len(conns) :
          ~conns[c].should_reconnect => ~conns'[c].should_reconnect]_vars

\* C23: should_reconnect is true from the start() of a connection on; it is
\* cleared by every explicit stop() and by nothing else, and once cleared it is
\* set again only by the start() of a manual reconnect of that connection.
C23_SetByStartClearedByStop ==
    [][/\ \A c \in (Len(conns) + 1)..Len(conns') :
             conns'[c].connection_task # None => conns'[c].should_reconnect
       /\ \A c \in 1..Len(conns) :
             /\ (~conns[c].should_reconnect /\ conns'[c].should_reconnect)
                    => ReconnectStarts(c)
             /\ (conns[c].should_reconnect /\ ~conns'[c].should_reconnect)
                    => StopBegins(c)
             /\ (StopBegins(c) /\ ~ReconnectStarts(c))
                    => ~conns'[c].should_reconnect]_vars

\* a manual reconnect has started again a connection whose should_reconnect
\* its stop() had cleared
C23_Witness ==
    \E c \in 1..Len(conns) : \E p \in 1..Len(tasks) :
        /\ tasks[p].kind = "reconnect" /\ tasks[p].conn = c /\ tasks[p].pc = "done"
        /\ conns[c].should_reconnect
        /\ conns[c].connection_task # None
        /\ \E t \in 1..Len(tasks) :
              /\ t # conns[c].connection_task
              /\ tasks[t].kind = "loop" /\ tasks[t].conn = c
              /\ tasks[t].pc = "cancelled"

\* a stop() has been called on the connection whose loop t then was, and awaits
\* the loop it cancelled (line 50)
StopAwaits(t) ==
    /\ tasks[t].kind = "loop"
    /\ \E p \in 1..Len(tasks) :
          /\ tasks[p].kind \in {"stop", "reconnect"}
          /\ tasks[p].pc = "await_task"
          /\ tasks[p].wait = t

\* C24: once stop() has cleared should_reconnect, the connection loop that
\* call cancelled terminates instead of retrying: whatever it was doing when
\* stop() was called (connecting, in its session, sleeping), it opens no further
\* transport, never sets connected and never sleeps or connects again.
C24_StoppedLoopTerminates ==
    [][\A t \in 1..Len(tasks) :
          (StopAwaits(t) /\ tasks'[t] # tasks[t]) =>
              /\ tasks'[t].pc \in {"aexit", "closing_ws", "cleaning_h"} \cup Finished
              /\ Len(sessions') = Len(sessions)
              /\ conns'[tasks[t].conn].connected => conns[tasks[t].conn].connected]_vars

\* the connection loop t is in the duplex phase of a session (lines 133-144)
InDuplex(T) == T.kind = "loop" /\ T.pc \in {"waiting", "cancel_wait"}

\* C25: the duplex phase ends as soon as either the inbound or the outbound
\* loop exits, and the other loop has been cancelled and awaited when the
\* connection leaves the phase, on every way out of it: the step that ends the
\* wait of asyncio.wait cancels every loop still running, and whenever the
\* connection loop leaves the phase, its own cancellation by stop() included,
\* both loops have ended.
C25_BothLoopsEndWithSession ==
    [][\A t \in 1..Len(tasks) :
          /\ (InDuplex(tasks[t]) /\ ~InDuplex(tasks'[t])) =>
                 \A i \in 1..Len(tasks[t].kids) : IsFinished(tasks'[tasks[t].kids[i]])
          /\ (tasks[t].kind = "loop" /\ tasks[t].pc = "waiting"
                 /\ tasks'[t].pc = "cancel_wait") =>
                 \A i \in 1..Len(tasks[t].kids) :
                     \/ IsFinished(tasks'[tasks[t].kids[i]])
                     \/ tasks'[tasks[t].kids[i]].cancel]_vars

\* the connection c holds nothing of its past sessions: both references are
\* null, every transport it opened is closed and every handler it made is torn down
CleanedUp(c) ==
    /\ conns[c].websocket = None
    /\ conns[c].handler = None
    /\ \A w \in 1..Len(sessions) :
          sessions[w].conn = c => ~sessions[w].open /\ sessions[w].cleanups >= 1

\* C26: cleanup is invoked on every exit path of a session: whenever the
\* connection loop has left a session or a failed connect attempt, towards the
\* backoff sleep as well as towards Stopped, the transport has been closed, the
\* handler torn down and both references are null, so that the next connect
\* attempt starts from a cleaned-up connection.
C26_CleanupOnEveryExit ==
    \A t \in 1..Len(tasks) :
        (tasks[t].kind = "loop" /\ tasks[t].pc \in {"sleeping", "connecting", "done"})
            => CleanedUp(tasks[t].conn)

\* the step resumes the _cleanup of the coroutine p (the connection loop or a
\* stop()) after the awaited call of the given place, with no cancellation
CleanupResumes(p, pc) ==
    /\ tasks[p].pc = pc
    /\ ~tasks[p].cancel
    /\ tasks'[p].pc # pc

\* the step is a stop() whose _cleanup finds nothing to clean: the loop has
\* ended and both references are null
CleanupAgain(c) ==
    /\ StopCalled(c)
    /\ conns[c].connection_task # None
    /\ IsFinished(tasks[conns[c].connection_task])
    /\ conns[c].websocket = None
    /\ conns[c].handler = None

\* C27: _cleanup never throws and is safe to call again: whether the awaited
\* websocket.close() raises or returns and whether the awaited handler.cleanup()
\* raises or returns, _cleanup goes on, nulls the reference and returns normally
\* with both references null; a _cleanup that follows closes nothing, tears down
\* nothing and returns at once.
C27_CleanupNeverThrows ==
    [][/\ \A p \in 1..Len(tasks) :
             /\ CleanupResumes(p, "closing_ws") =>
                    /\ conns'[tasks[p].conn].websocket = None
                    /\ tasks'[p].pc \in {"cleaning_h", "done"}
             /\ CleanupResumes(p, "cleaning_h") =>
                    /\ conns'[tasks[p].conn].websocket = None
                    /\ conns'[tasks[p].conn].handler = None
                    /\ tasks'[p].pc = "done"
       /\ \A c \in 1..Len(conns) :
             CleanupAgain(c) =>
                 /\ sessions' = sessions
                 /\ tasks'[Len(tasks')].pc = "done"
                 /\ conns'[c].websocket = None /\ conns'[c].handler = None]_vars

\* both the close and the handler teardown of one _cleanup raised, the loop
\* ended normally all the same, and a stop() that came after it ran _cleanup again
C27_Witness ==
    /\ env.faults = 0
    /\ \E t \in 1..Len(tasks) : \E p \in 1..Len(tasks) :
          /\ tasks[t].kind = "loop" /\ tasks[t].pc = "done"
          /\ tasks[p].kind = "stop" /\ tasks[p].pc = "done"
          /\ conns[tasks[t].conn].websocket = None
          /\ conns[tasks[t].conn].handler = None
          /\ \E w \in 1..Len(sessions) :
                sessions[w].closes = 1 /\ sessions[w].cleanups = 1

\* C28: whenever the connected flag of a connection is true, its transport has
\* been established, its handler has been instantiated and its start_up() has
\* returned, and the session configuration message has been sent on that
\* transport (the inbound and outbound loops, started in the same step as the
\* flag is set, therefore run on a configured session).
C28_ConnectedMeansConfigured ==
    \A c \in 1..Len(conns) :
        conns[c].connected =>
            /\ conns[c].websocket # None
            /\ conns[c].handler # None
            /\ sessions[conns[c].handler].hstate \in {"started", "exited"}
            /\ \E i \in 1..Len(sessions[conns[c].websocket].sent) :
                  sessions[conns[c].websocket].sent[i] = SessionUpdate

\* the reconnect policy of the connection c allows another attempt (line 66)
PolicyAllows(c) == conns[c].should_reconnect /\ conns[c].device.auto_reconnect

\* the step ends an attempt of the connection loop t that was not cancelled: the
\* connect failed or timed out, or the handler has been left after a start-up
\* error, a configuration error or the end of the session
AttemptEnds(t) ==
    /\ tasks[t].kind = "loop"
    /\ ~tasks[t].cancel
    /\ \/ tasks[t].pc = "connecting" /\ tasks'[t].pc \notin {"connecting", "startup"}
       \/ tasks[t].pc = "aexit" /\ tasks[t].exc # "cancel" /\ tasks'[t].pc # "aexit"

\* C29: a connect failure (error or timeout), a handler start-up failure or a
\* transport failure during the session is never fatal: no connection loop ever
\* ends with an error, a failure in the handler phase takes the loop to the exit
\* of the handler, and the end of every attempt applies the policy: the backoff
\* sleep if should_reconnect and auto_reconnect, the final cleanup otherwise.
C29_FailuresNeverFatal ==
    /\ [](\A t \in 1..Len(tasks) : tasks[t].kind = "loop" => tasks[t].pc # "failed")
    /\ [][\A t \in 1..Len(tasks) :
            /\ AttemptEnds(t) =>
                   IF PolicyAllows(tasks[t].conn)
                   THEN tasks'[t].pc = "sleeping"
                   ELSE tasks'[t].pc \in {"closing_ws", "cleaning_h", "done"}
            /\ (tasks[t].kind = "loop" /\ ~tasks[t].cancel
                   /\ tasks[t].pc \in {"startup", "configuring", "waiting", "cancel_wait"}
                   /\ tasks'[t].pc # tasks[t].pc)
                  => tasks'[t].pc \in {"configuring", "waiting", "cancel_wait", "aexit"}]_vars

\* after an attempt that failed and a session whose inbound loop a transport
\* failure ended, the connection loop is in its backoff sleep
C29_Witness ==
    \E t \in 1..Len(tasks) :
        /\ tasks[t].kind = "loop"
        /\ tasks[t].pc = "sleeping"
        /\ tasks[t].n >= 2
        /\ \E r \in 1..Len(tasks) :
              tasks[r].kind = "recv" /\ tasks[r].conn = tasks[t].conn
                  /\ tasks[r].pc = "failed"

\* the step is the outbound loop e trying to send an encoded emission on a
\* transport that is gone or closed: websocket.send raises in _send_to_device
SendFails(e) ==
    /\ tasks[e].kind = "emit"
    /\ ~tasks[e].cancel
    /\ tasks[e].pc = "encoding"
    /\ Sends(tasks[e].msg[1])
    /\ tasks'[e].pc # "encoding"
    /\ ~Sendable(St, conns[tasks[e].conn].websocket)

\* C30: in the outbound loop a send or encode error terminates the loop and
\* propagates as the loop's failure: the outbound task ends with an error, not
\* with a normal return (and the session then ends).
C30_SendErrorFailsTheLoop ==
    [][\A e \in 1..Len(tasks) : SendFails(e) => tasks'[e].pc = "failed"]_vars

\* C31: within one session the receive calls made by the inbound loop are, in
\* arrival order, the input_audio_buffer.append frames that arrived on the
\* session's transport and whose decoded PCM is not empty, each handed to the
\* session's handler before the next frame is taken; the other frames
\* (session.update, unrecognized, malformed, audio that decodes to nothing)
\* cause no receive call.
C31_InboundOrderPreserved ==
    \A w \in 1..Len(sessions) :
        LET rec == sessions[w].received
            arr == sessions[w].arrived IN
        /\ Len(rec) <= Len(arr)
        /\ rec = SubSeq(arr, 1, Len(rec))

\* the step answers a health check
HealthAsked == env'.calls < env.calls /\ env'.request = <<"health">>

\* an enabled endpoint of the manager is connected
EnabledConnected ==
    \E c \in 1..Len(conns) :
        Registered(c) /\ conns[c].device.enabled /\ conns[c].connected

\* C32: the health check answers healthy (200) exactly when the device manager
\* is initialized and at least one enabled endpoint is connected or no endpoint
\* is enabled; in every other state it answers 503.
C32_HealthyIffConnectedOrNoneEnabled ==
    [][HealthAsked =>
          /\ response' \in {200, 503}
          /\ response' = 200 <=>
                 /\ device_manager
                 /\ \/ EnabledConnected
                    \/ \A k \in 1..Len(config) : ~config[k].enabled]_vars

\* a health check was answered 503 although the manager is initialized: its
\* enabled device is not connected
C32_Witness ==
    /\ device_manager
    /\ env.request = <<"health">>
    /\ response = 503
    /\ EnabledNames # {}

-----------------------------------------------------------------------------
(* The Recorder and its callers *)

\* asyncio.create_task(recorder.run())
RunCreate ==
    /\ Len(recorder.runs) < MaxRuns
    /\ recorder' = [recorder EXCEPT !.runs = Append(@, NewRun)]
    /\ UNCHANGED <<config, device_manager, running, connections, conns, tasks,
                   sessions, response, env>>

\* the event loop resumes the task of run(): a wait for the lock resumes only
\* once its future is done or cancelled
RunStep ==
    /\ \E t \in 1..Len(recorder.runs) :
          /\ \/ recorder.runs[t].pc \in {"new", "sleeping"}
             \/ recorder.runs[t].pc = "acquiring" /\ recorder.runs[t].fut # "pending"
          /\ recorder' = run(recorder, t)
    /\ UNCHANGED <<config, device_manager, running, connections, conns, tasks,
                   sessions, response, env>>

\* the owner cancels a task of run()
RunCancel ==
    /\ \E t \in 1..Len(recorder.runs) :
          /\ recorder.runs[t].pc \in {"new", "acquiring", "sleeping"}
          /\ ~recorder.runs[t].cancel
          /\ recorder' = cancel_run(recorder, t)
    /\ UNCHANGED <<config, device_manager, running, connections, conns, tasks,
                   sessions, response, env>>

\* some run() task is inside the while loop of _loop
InLoop(r) == \E t \in 1..Len(r.runs) : r.runs[t].pc = "sleeping"

\* a caller awaits add_event with the next event
AddEvent ==
    /\ Len(recorder.offers) < MaxEvents
    /\ recorder' = [add_event(recorder, Len(recorder.offers) + 1)
                       EXCEPT !.offers = Append(@, InLoop(recorder))]
    /\ UNCHANGED <<config, device_manager, running, connections, conns, tasks,
                   sessions, response, env>>

\* a caller awaits shutdown()
Shutdown ==
    /\ recorder.shutdowns < MaxShutdowns
    /\ recorder' = [shutdown(recorder) EXCEPT !.shutdowns = @ + 1]
    /\ UNCHANGED <<config, device_manager, running, connections, conns, tasks,
                   sessions, response, env>>

NextRecorder == RunCreate \/ RunStep \/ RunCancel \/ AddEvent \/ Shutdown

\* no device is configured; only the Recorder acts
InitRecorder == InitWith({<<>>}, Budget(0, 0, 0, 0, 0))

SpecRecorder == InitRecorder /\ [][NextRecorder]_vars

\* C33: add_event ignores the event when the recorder is not running: an event
\* offered while no run() task is inside the loop (before run() has acquired
\* the lock, or after the task ended, a cancellation delivered included) never
\* reaches the queue or the file, and an event offered while a run() task is
\* inside the loop is enqueued by that very call
C33_IgnoredUnlessRunning ==
    /\ [][Len(recorder'.offers) = Len(recorder.offers) + 1 =>
            /\ recorder'.file = recorder.file
            /\ recorder'.queue = IF InLoop(recorder)
                                 THEN Append(recorder.queue, Len(recorder'.offers))
                                 ELSE recorder.queue]_vars
    /\ [](\A e \in 1..Len(recorder.offers) :
             ~recorder.offers[e] =>
                 /\ \A i \in 1..Len(recorder.queue) : recorder.queue[i] # e
                 /\ \A i \in 1..Len(recorder.file) : recorder.file[i] # e)

\* an event was ignored before run() acquired the lock, one was enqueued while
\* the loop ran, and one was ignored after the cancellation was delivered
C33_Witness ==
    /\ Len(recorder.offers) = 3
    /\ recorder.offers = <<FALSE, TRUE, FALSE>>
    /\ recorder.queue = <<2>>
    /\ \E t \in 1..Len(recorder.runs) : recorder.runs[t].pc = "cancelled"
    /\ ~InLoop(recorder)

\* the events add_event accepted, in the order it accepted them
Accepted(r) ==
    SelectSeq([e \in 1..Len(r.offers) |-> e], LAMBDA e : r.offers[e])

\* C34: persistence is exactly-once and FIFO: at any time the file followed by
\* the queue is the sequence of the accepted events, each once and in the order
\* of acceptance; the loop writes only when at least SAVE_EVERY_N_EVENTS events
\* are queued; when shutdown() returns the queue is empty and the file holds
\* every accepted event, whatever the loop has flushed before or flushes after
C34_ExactlyOnceInOrder ==
    /\ [](recorder.file \o recorder.queue = Accepted(recorder))
    /\ [][recorder'.file # recorder.file /\ recorder'.shutdowns = recorder.shutdowns =>
            Len(recorder.queue) >= SAVE_EVERY_N_EVENTS]_vars
    /\ [][recorder'.shutdowns = recorder.shutdowns + 1 =>
            /\ recorder'.queue = <<>>
            /\ recorder'.file = Accepted(recorder')]_vars

\* the first shutdown() has returned while a run() task is still in the loop,
\* and the file holds the three accepted events
C34_Witness ==
    /\ recorder.shutdowns = 1
    /\ InLoop(recorder)
    /\ recorder.queue = <<>>
    /\ recorder.file = <<1, 2, 3>>

\* C35: a DeviceConnection has at most one live connection-loop task: every
\* connection-loop task of the connection that has not ended and was not
\* cancelled is the one connection_task refers to
C35_OneLiveLoop ==
    \A t \in 1..Len(tasks) :
        (tasks[t].kind = "loop" /\ ~IsFinished(tasks[t]) /\ ~tasks[t].cancel) =>
            conns[tasks[t].conn].connection_task = t

\* the inbound and outbound loops that are running for the connection c
DuplexTasks(c) ==
    {k \in 1..Len(tasks) :
        tasks[k].kind \in {"recv", "emit"} /\ tasks[k].conn = c /\ ~IsFinished(tasks[k])}

\* C36: the sessions of one connection are isolated: what is sent on the
\* transport of a session comes from that session's own handler, what a
\* session's handler receives arrived on that session's transport, and while a
\* connection loop is in the duplex phase of its session the only inbound and
\* outbound loops running for the connection are the two it created
C36_SessionsIsolated ==
    /\ \A w \in 1..Len(sessions) :
          /\ \A i \in 1..Len(sessions[w].sent) :
                sessions[w].sent[i] # SessionUpdate => sessions[w].sent[i].src = w
          /\ \A i \in 1..Len(sessions[w].received) :
                \E j \in 1..Len(sessions[w].arrived) :
                    sessions[w].arrived[j] = sessions[w].received[i]
    /\ \A t \in 1..Len(tasks) :
          InDuplex(tasks[t]) =>
              DuplexTasks(tasks[t].conn) \subseteq
                  {tasks[t].kids[i] : i \in 1..Len(tasks[t].kids)}

\* C37: once DeviceManager.stop() has returned to a caller, any caller, the
\* registry is empty and every connection the manager started is stopped
\* (nothing starts the manager again in SpecStops)
C37_StoppedOnReturn ==
    (\E p \in 1..Len(tasks) : tasks[p].kind = "mstop" /\ tasks[p].pc = "done") =>
        /\ connections = <<>>
        /\ \A c \in 1..Len(conns) : Stopped(c)

\* C38: no connection is orphaned: in every state, whatever calls are in
\* progress, every connection with a running connection loop is an entry of the
\* manager's registry
C38_NoOrphanConnection ==
    \A c \in 1..Len(conns) : LiveLoop(c) => Registered(c)

\* SpecOverlap under the scheduling of the event loop: a task or a caller's
\* coroutine that is ready to run is run
SpecOverlapLive ==
    /\ SpecOverlap
    /\ Fairness
    /\ WF_vars(\E p \in 1..Len(tasks) : CallStep(p))

\* a stop() called on a connection has not returned yet
StopPending ==
    \E p \in 1..Len(tasks) : tasks[p].kind = "stop" /\ ~IsFinished(tasks[p])

\* the step in which the stop() coroutine p returns (a call that finds nothing
\* to await returns in the step that makes it)
StopReturns(p) ==
    /\ p \in 1..Len(tasks')
    /\ tasks'[p].kind = "stop"
    /\ tasks'[p].pc = "done"
    /\ p \in 1..Len(tasks) => tasks[p].pc # "done"

\* C39: DeviceConnection.stop() always terminates: in whatever state of the
\* connection it is called (loop not yet run, connecting, in its session with
\* both loops, cancelling the losing loop, in the backoff sleep, already
\* stopped) every pending stop() eventually returns, and at its return
\* connected is false and the transport and handler references are null
C39_StopTerminates ==
    /\ StopPending ~> ~StopPending
    /\ [][\A p \in 1..Len(tasks') :
             StopReturns(p) =>
                 /\ ~conns'[tasks'[p].conn].connected
                 /\ conns'[tasks'[p].conn].websocket = None
                 /\ conns'[tasks'[p].conn].handler = None]_vars

\* C40: in every state the fleet counts are ordered, connected <= size of the
\* registry <= enabled <= total, and no connection of the registry on which a
\* stop() has returned (and that was not started after that) is among the
\* connected ones
C40_CountsOrdered ==
    LET device_stats == get_device_count(St, config) IN
    /\ device_stats.connected <= Len(connections)
    /\ Len(connections) <= device_stats.enabled
    /\ device_stats.enabled <= device_stats.total
    /\ \A i \in 1..Len(connections) :
          conns[connections[i].conn].stopped >= 1 =>
              ~get_connection_status(St)[i].connected

====
